---- MODULE Spec2Model ----
(***************************************************************************)
(* The pointer registry of tclh (include/tclhPointerImpl.c): a table of    *)
(* registered addresses, each with a type tag and a reference count, and a *)
(* table of subtag -> supertag edges used to decide tag compatibility.     *)
(***************************************************************************)
EXTENDS Integers, Sequences, FiniteSets, TLC

VARIABLES
    pointers,   \* TclhPointerRegistry.pointers : address -> TclhPointerRecord
    castables,  \* TclhPointerRegistry.castables: subtag -> supertag
    last,       \* the last call made: its arguments, what it found, its result
    hist,       \* per address: the run of calls made on it (history variable)
    scen,       \* progress through the Foo/Bar scenario on address 0x1000
    ctx         \* the owning context: interpreter, registry, references

vars == <<pointers, castables, last, hist, scen, ctx>>

----------------------------------------------------------------------------
(* Bounds of the model.                                                    *)

\* Counts are explored in 1..MaxCount and in the band of MaxCount values
\* below TCLH_POINTER_NREFS_MAX.
MaxCount == 2
\* The length of a run of uncounted registrations is tracked up to MaxRun.
MaxRun == 3
\* The number of edges of the chain of subtags of SpecChain.
ChainEdges == 12

----------------------------------------------------------------------------
(* Values.                                                                 *)

\* The NULL address.
NULL == 0
\* The NULL Tclh_PointerTypeTag (an untyped, "void" pointer).
NoTag == "<NULL>"

TCLH_POINTER_NREFS_MAX == 2147483647

TCLH_UNCOUNTED_POINTER == "TCLH_UNCOUNTED_POINTER"
TCLH_COUNTED_POINTER == "TCLH_COUNTED_POINTER"
TCLH_PINNED_POINTER == "TCLH_PINNED_POINTER"
RegistrationTypes ==
    {TCLH_UNCOUNTED_POINTER, TCLH_COUNTED_POINTER, TCLH_PINNED_POINTER}

TCLH_TAG_RELATION_UNRELATED == "TCLH_TAG_RELATION_UNRELATED"
TCLH_TAG_RELATION_EQUAL == "TCLH_TAG_RELATION_EQUAL"
TCLH_TAG_RELATION_IMPLICITLY_CASTABLE == "TCLH_TAG_RELATION_IMPLICITLY_CASTABLE"
TCLH_TAG_RELATION_EXPLICITLY_CASTABLE == "TCLH_TAG_RELATION_EXPLICITLY_CASTABLE"

TCLH_POINTER_REGISTRATION_MISSING == "TCLH_POINTER_REGISTRATION_MISSING"
TCLH_POINTER_REGISTRATION_WRONGTAG == "TCLH_POINTER_REGISTRATION_WRONGTAG"
TCLH_POINTER_REGISTRATION_OK == "TCLH_POINTER_REGISTRATION_OK"
TCLH_POINTER_REGISTRATION_DERIVED == "TCLH_POINTER_REGISTRATION_DERIVED"

\* Results: TCL_OK, or the error the call reports.
TCL_OK == "TCL_OK"
NullPointer == "NullPointer"        \* Tclh_ErrorPointerNull
NotRegistered == "NotRegistered"    \* PointerNotRegisteredError
TypeMismatch == "TypeMismatch"      \* PointerTypeMismatchError
Exists == "Exists"                  \* Tclh_ErrorExists

\* The inputs of the calls.
Addresses == {4096, 8192}       \* 0x1000, 0x2000
Tags == {"Animal", "Dog", "Foo", "Bar"}
TagsOrNull == Tags \cup {NoTag}

TclhPointerRecord(tagObj, nRefs) == [tagObj |-> tagObj, nRefs |-> nRefs]

\* Tcl_FindHashEntry on a table: the set holding the value found, or {}.
FindHashEntry(table, key) ==
    IF key \in DOMAIN table THEN {table[key]} ELSE {}

\* Mutant: every entry of the table goes.
DeleteHashEntry_All(table, key) ==
    [k \in {} |-> table[k]]

\* Tcl_DeleteHashEntry.
DeleteHashEntry(table, key) ==
    [k \in DOMAIN table \ {key} |-> table[k]]

\* Tcl_SetHashValue on the entry of key, created when missing.
SetHashValue(table, key, value) ==
    [k \in DOMAIN table \cup {key} |-> IF k = key THEN value ELSE table[k]]

EmptyTable == [k \in {} |-> NoTag]

----------------------------------------------------------------------------
(* Tag compatibility.                                                      *)

PointerTypeMatchesExpected(pointer_tag, expected_tag) ==
    IF pointer_tag = expected_tag \/ expected_tag = NoTag
    THEN TRUE
    ELSE IF pointer_tag = NoTag
    THEN FALSE
    ELSE pointer_tag = expected_tag     \* strcmp of the two tag strings

PointerTagsSame(tagA, tagB) ==
    IF tagA = tagB
    THEN TRUE
    ELSE IF tagA = NoTag \/ tagB = NoTag
    THEN FALSE
    ELSE tagA = tagB                    \* strcmp of the two tag strings

\* Mutant: one lookup more.
CompatibleDepth_OneMore == 10 + 1

\* Mutant: one lookup less.
AncestorDepth_OneLess == 10 - 1

\* Hard limits on the depth of supertag lookups.
CompatibleDepth == 10
AncestorDepth == 10

RECURSIVE PointerTypeCompatibleLoop(_, _, _, _)
PointerTypeCompatibleLoop(cast, tag, expected, i) ==
    IF i >= CompatibleDepth
    THEN FALSE
    ELSE IF FindHashEntry(cast, tag) = {}
    THEN FALSE                          \* no super type
    ELSE LET super == cast[tag] IN
         IF super = NoTag
         THEN FALSE
         ELSE IF PointerTypeMatchesExpected(super, expected)
         THEN TRUE
         ELSE PointerTypeCompatibleLoop(cast, super, expected, i + 1)

PointerTypeCompatible(cast, tag, expected) ==
    IF PointerTypeMatchesExpected(tag, expected)
    THEN TRUE
    ELSE IF tag = NoTag
    THEN FALSE
    ELSE PointerTypeCompatibleLoop(cast, tag, expected, 0)

\* Mutant: running into the depth limit counts as a match.
RECURSIVE PointerTagIsAncestorLoop_LimitMatches(_, _, _, _)
PointerTagIsAncestorLoop_LimitMatches(cast, tag, ancestor, i) ==
    IF i >= AncestorDepth
    THEN TRUE
    ELSE IF FindHashEntry(cast, tag) = {}
    THEN FALSE
    ELSE LET super == cast[tag] IN
         IF super = NoTag
         THEN FALSE
         ELSE IF PointerTagsSame(super, ancestor)
         THEN TRUE
         ELSE PointerTagIsAncestorLoop_LimitMatches(cast, super, ancestor,
                                                   i + 1)

RECURSIVE PointerTagIsAncestorLoop(_, _, _, _)
PointerTagIsAncestorLoop(cast, tag, ancestor, i) ==
    IF i >= AncestorDepth
    THEN FALSE
    ELSE IF FindHashEntry(cast, tag) = {}
    THEN FALSE
    ELSE LET super == cast[tag] IN
         IF super = NoTag
         THEN FALSE
         ELSE IF PointerTagsSame(super, ancestor)
         THEN TRUE
         ELSE PointerTagIsAncestorLoop(cast, super, ancestor, i + 1)

\* Mutant: only the immediate supertag is looked at.
PointerTagIsAncestor_OneHop(cast, tag, ancestor) ==
    IF ancestor = NoTag
    THEN TRUE
    ELSE IF tag = NoTag
    THEN FALSE
    ELSE \E he \in FindHashEntry(cast, tag) : PointerTagsSame(he, ancestor)

PointerTagIsAncestor(cast, tag, ancestor) ==
    IF ancestor = NoTag
    THEN TRUE
    ELSE IF tag = NoTag
    THEN FALSE
    ELSE PointerTagIsAncestorLoop(cast, tag, ancestor, 0)

PointerTagCompare(cast, tag, expectedTag) ==
    IF tag = expectedTag
    THEN TCLH_TAG_RELATION_EQUAL
    ELSE IF expectedTag = NoTag
    THEN TCLH_TAG_RELATION_IMPLICITLY_CASTABLE
    ELSE IF tag = NoTag
    THEN TCLH_TAG_RELATION_EXPLICITLY_CASTABLE
    ELSE IF tag = expectedTag           \* strcmp of the two tag strings
    THEN TCLH_TAG_RELATION_EQUAL
    ELSE IF PointerTagIsAncestor(cast, tag, expectedTag)
    THEN TCLH_TAG_RELATION_IMPLICITLY_CASTABLE
    ELSE IF PointerTagIsAncestor(cast, expectedTag, tag)
    THEN TCLH_TAG_RELATION_EXPLICITLY_CASTABLE
    ELSE TCLH_TAG_RELATION_UNRELATED

----------------------------------------------------------------------------
(* The registry operations, as functions of the tables.                    *)

\* Mutant: a new pinned entry keeps the tag it is given.
NewRecord_PinnedTagged(tag, registration) ==
    TclhPointerRecord(
        tag,
        CASE registration = TCLH_UNCOUNTED_POINTER -> -1
          [] registration = TCLH_COUNTED_POINTER -> 1
          [] registration = TCLH_PINNED_POINTER -> TCLH_POINTER_NREFS_MAX)

\* The record of a new entry.
NewRecord(tag, registration) ==
    TclhPointerRecord(
        IF tag # NoTag /\ registration # TCLH_PINNED_POINTER
        THEN tag ELSE NoTag,
        CASE registration = TCLH_UNCOUNTED_POINTER -> -1
          [] registration = TCLH_COUNTED_POINTER -> 1
          [] registration = TCLH_PINNED_POINTER -> TCLH_POINTER_NREFS_MAX)

\* Mutant: the count of a duplicate registration is not incremented.
IncrementRecord_NoIncrement(ptrRec) == ptrRec

\* Mutant: the count starts again at 1 instead of reaching the maximum.
IncrementRecord_WrapsToOne(ptrRec) ==
    TclhPointerRecord(
        ptrRec.tagObj,
        IF ptrRec.nRefs + 1 = TCLH_POINTER_NREFS_MAX
        THEN 1 ELSE ptrRec.nRefs + 1)

\* A compatible counted registration of a counted pointer.
IncrementRecord(ptrRec) ==
    TclhPointerRecord(ptrRec.tagObj, ptrRec.nRefs + 1)

\* Mutant: the overwrite keeps the tag that was stored.
OverwriteRecord_KeepsTag(ptrRec, tag, registration) ==
    TclhPointerRecord(
        ptrRec.tagObj,
        IF registration = TCLH_UNCOUNTED_POINTER THEN -1 ELSE 1)

\* Mutant: the overwrite keeps the count that was stored.
OverwriteRecord_KeepsCount(ptrRec, tag, registration) ==
    TclhPointerRecord(tag, ptrRec.nRefs)

\* Incompatible tags or a different registration: overwrite.
OverwriteRecord(ptrRec, tag, registration) ==
    TclhPointerRecord(
        tag, IF registration = TCLH_UNCOUNTED_POINTER THEN -1 ELSE 1)

\* Mutant: a pinned entry is registered over like any other.
ExistingRecord_PinnedOverwritten(cast, ptrRec, tag, registration) ==
    IF registration = TCLH_PINNED_POINTER
    THEN TclhPointerRecord(NoTag, TCLH_POINTER_NREFS_MAX)
    ELSE LET tagCompatible ==
                 PointerTypeCompatible(cast, tag, ptrRec.tagObj) IN
         IF tagCompatible /\ registration = TCLH_UNCOUNTED_POINTER
            /\ ptrRec.nRefs < 0
         THEN ptrRec
         ELSE IF tagCompatible /\ registration = TCLH_COUNTED_POINTER
                 /\ ptrRec.nRefs > 0
                 /\ ptrRec.nRefs < TCLH_POINTER_NREFS_MAX
         THEN IncrementRecord(ptrRec)
         ELSE OverwriteRecord(ptrRec, tag, registration)

\* Mutant: the stored tag is checked against the incoming one.
ExistingRecord_Swapped(cast, ptrRec, tag, registration) ==
    IF ptrRec.nRefs = TCLH_POINTER_NREFS_MAX
    THEN ptrRec
    ELSE IF registration = TCLH_PINNED_POINTER
    THEN TclhPointerRecord(NoTag, TCLH_POINTER_NREFS_MAX)
    ELSE LET tagCompatible ==
                 PointerTypeCompatible(cast, ptrRec.tagObj, tag) IN
         IF tagCompatible /\ registration = TCLH_UNCOUNTED_POINTER
            /\ ptrRec.nRefs < 0
         THEN ptrRec
         ELSE IF tagCompatible /\ registration = TCLH_COUNTED_POINTER
                 /\ ptrRec.nRefs > 0
         THEN IncrementRecord(ptrRec)
         ELSE OverwriteRecord(ptrRec, tag, registration)

\* The record left in an entry that exists already.
ExistingRecord(cast, ptrRec, tag, registration) ==
    IF ptrRec.nRefs = TCLH_POINTER_NREFS_MAX
    THEN ptrRec                         \* pinned pointers are unaffected
    ELSE IF registration = TCLH_PINNED_POINTER
    THEN TclhPointerRecord(NoTag, TCLH_POINTER_NREFS_MAX)
    ELSE LET tagCompatible ==
                 PointerTypeCompatible(cast, tag, ptrRec.tagObj) IN
         IF tagCompatible /\ registration = TCLH_UNCOUNTED_POINTER
            /\ ptrRec.nRefs < 0
         THEN ptrRec
         ELSE IF tagCompatible /\ registration = TCLH_COUNTED_POINTER
                 /\ ptrRec.nRefs > 0
         THEN IncrementRecord(ptrRec)
         ELSE OverwriteRecord(ptrRec, tag, registration)

\* Mutant: the handle carries no tag.
Tclh_PointerWrap_NoTag(pointerValue, tag) == <<pointerValue, NoTag>>

\* Tclh_PointerWrap: the handle, an (address, tag) pair.
Tclh_PointerWrap(pointerValue, tag) == <<pointerValue, tag>>

\* Mutant: a NULL pointer is registered like any other.
TclhPointerRegister_NoNullCheck(ptrs, cast, pointer, tag, registration) ==
    LET he == FindHashEntry(ptrs, pointer) IN
    [pointers |->
         SetHashValue(ptrs, pointer,
             IF he = {}
             THEN NewRecord(tag, registration)
             ELSE ExistingRecord(cast, CHOOSE r \in he : TRUE,
                                 tag, registration)),
     res |-> TCL_OK,
     obj |-> Tclh_PointerWrap(pointer, tag)]

TclhPointerRegister(ptrs, cast, pointer, tag, registration) ==
    IF pointer = NULL
    THEN [pointers |-> ptrs, res |-> NullPointer,
          obj |-> Tclh_PointerWrap(NULL, NoTag)]
    ELSE LET he == FindHashEntry(ptrs, pointer) IN
         [pointers |->
              SetHashValue(ptrs, pointer,
                  IF he = {}
                  THEN NewRecord(tag, registration)
                  ELSE ExistingRecord(cast, CHOOSE r \in he : TRUE,
                                      tag, registration)),
          res |-> TCL_OK,
          obj |-> Tclh_PointerWrap(pointer, tag)]

\* Mutant: the two tags of the check exchanged.
RecordTagCompatible_Swapped(cast, tag, ptrRec) ==
    PointerTypeCompatible(cast, ptrRec.tagObj, tag)

\* Mutant: the tag is not checked.
RecordTagCompatible_Unchecked(cast, tag, ptrRec) == TRUE

\* The tag check of verify, unregister and invalidate against the record.
RecordTagCompatible(cast, tag, ptrRec) ==
    PointerTypeCompatible(cast, tag, ptrRec.tagObj)

\* Mutant: the entry is removed only when the count is below unrefCount.
UnrefRecord_KeepsZero(ptrs, pointer, ptrRec, unrefCount) ==
    IF ptrRec.nRefs = TCLH_POINTER_NREFS_MAX
    THEN IF unrefCount = TCLH_POINTER_NREFS_MAX
         THEN DeleteHashEntry(ptrs, pointer)
         ELSE ptrs
    ELSE IF ptrRec.nRefs < unrefCount
    THEN DeleteHashEntry(ptrs, pointer)
    ELSE SetHashValue(ptrs, pointer,
             TclhPointerRecord(ptrRec.tagObj, ptrRec.nRefs - unrefCount))

\* Mutant: the entry is removed only when the count equals unrefCount.
UnrefRecord_OnlyEqual(ptrs, pointer, ptrRec, unrefCount) ==
    IF ptrRec.nRefs = TCLH_POINTER_NREFS_MAX
    THEN IF unrefCount = TCLH_POINTER_NREFS_MAX
         THEN DeleteHashEntry(ptrs, pointer)
         ELSE ptrs
    ELSE IF ptrRec.nRefs = unrefCount
    THEN DeleteHashEntry(ptrs, pointer)
    ELSE SetHashValue(ptrs, pointer,
             TclhPointerRecord(ptrRec.tagObj, ptrRec.nRefs - unrefCount))

\* Mutant: a pinned entry is counted down like any other.
UnrefRecord_PinnedCounted(ptrs, pointer, ptrRec, unrefCount) ==
    IF ptrRec.nRefs <= unrefCount
    THEN DeleteHashEntry(ptrs, pointer)
    ELSE SetHashValue(ptrs, pointer,
             TclhPointerRecord(ptrRec.tagObj, ptrRec.nRefs - unrefCount))

\* Mutant: a pinned entry is never removed.
UnrefRecord_PinnedStays(ptrs, pointer, ptrRec, unrefCount) ==
    IF ptrRec.nRefs = TCLH_POINTER_NREFS_MAX
    THEN ptrs
    ELSE IF ptrRec.nRefs <= unrefCount
    THEN DeleteHashEntry(ptrs, pointer)
    ELSE SetHashValue(ptrs, pointer,
             TclhPointerRecord(ptrRec.tagObj, ptrRec.nRefs - unrefCount))

\* The table after unrefCount references of the entry are dropped.
UnrefRecord(ptrs, pointer, ptrRec, unrefCount) ==
    IF ptrRec.nRefs = TCLH_POINTER_NREFS_MAX
    THEN IF unrefCount = TCLH_POINTER_NREFS_MAX
         THEN DeleteHashEntry(ptrs, pointer)
         ELSE ptrs
    ELSE IF ptrRec.nRefs <= unrefCount
    THEN DeleteHashEntry(ptrs, pointer)
    ELSE SetHashValue(ptrs, pointer,
             TclhPointerRecord(ptrRec.tagObj, ptrRec.nRefs - unrefCount))

\* Mutant: a missing entry is an error for every caller.
MissingEntryResult_AlwaysError(unrefCount) == NotRegistered

\* The result when the pointer has no entry.
MissingEntryResult(unrefCount) ==
    IF unrefCount = TCLH_POINTER_NREFS_MAX
    THEN TCL_OK             \* invalidate, no error if pointer not registered
    ELSE NotRegistered

PointerVerifyOrUnregisterTagged(ptrs, cast, pointer, tag, unrefCount) ==
    LET he == FindHashEntry(ptrs, pointer) IN
    IF he # {}
    THEN LET ptrRec == CHOOSE r \in he : TRUE IN
         IF ~RecordTagCompatible(cast, tag, ptrRec)
         THEN [pointers |-> ptrs, res |-> TypeMismatch]
         ELSE IF unrefCount # 0
         THEN [pointers |-> UnrefRecord(ptrs, pointer, ptrRec, unrefCount),
               res |-> TCL_OK]
         ELSE [pointers |-> ptrs, res |-> TCL_OK]
    ELSE [pointers |-> ptrs, res |-> MissingEntryResult(unrefCount)]

Tclh_PointerUnregisterTagged(ptrs, cast, pointer, tag) ==
    PointerVerifyOrUnregisterTagged(ptrs, cast, pointer, tag, 1)

\* Mutant: the entry is removed whatever the tag.
Tclh_PointerInvalidateTagged_Unconditional(ptrs, cast, pointer, tag) ==
    [pointers |-> DeleteHashEntry(ptrs, pointer), res |-> TCL_OK]

Tclh_PointerInvalidateTagged(ptrs, cast, pointer, tag) ==
    PointerVerifyOrUnregisterTagged(ptrs, cast, pointer, tag,
                                    TCLH_POINTER_NREFS_MAX)

\* Mutant: verify drops a reference.
Tclh_PointerVerifyTagged_Unrefs(ptrs, cast, pointer, tag) ==
    PointerVerifyOrUnregisterTagged(ptrs, cast, pointer, tag, 1)

Tclh_PointerVerifyTagged(ptrs, cast, pointer, tag) ==
    PointerVerifyOrUnregisterTagged(ptrs, cast, pointer, tag, 0)

\* Tclh_PointerUnregister, the variant that takes no tag.
Tclh_PointerUnregister(ptrs, pointer) ==
    LET he == FindHashEntry(ptrs, pointer) IN
    IF he # {}
    THEN LET ptrRec == CHOOSE r \in he : TRUE IN
         IF ptrRec.nRefs # TCLH_POINTER_NREFS_MAX
         THEN IF ptrRec.nRefs <= 1
              THEN [pointers |-> DeleteHashEntry(ptrs, pointer),
                    res |-> TCL_OK]
              ELSE [pointers |->
                        SetHashValue(ptrs, pointer,
                            TclhPointerRecord(ptrRec.tagObj,
                                              ptrRec.nRefs - 1)),
                    res |-> TCL_OK]
         ELSE [pointers |-> ptrs, res |-> TCL_OK]
    ELSE [pointers |-> ptrs, res |-> NotRegistered]

\* Mutant: the value of an existing key is replaced.
Tclh_HashAdd_Replaces(table, key, value) ==
    [table |-> SetHashValue(table, key, value), res |-> TCL_OK]

\* Tclh_HashAdd on the castables table.
Tclh_HashAdd(table, key, value) ==
    IF key \in DOMAIN table
    THEN [table |-> table, res |-> Exists]
    ELSE [table |-> SetHashValue(table, key, value), res |-> TCL_OK]

Tclh_PointerSubtagDefine(cast, subtagObj, supertagObj) ==
    IF supertagObj = NoTag
    THEN [table |-> cast, res |-> TCL_OK]
    ELSE IF subtagObj = supertagObj
    THEN [table |-> cast, res |-> TCL_OK]
    ELSE Tclh_HashAdd(cast, subtagObj, supertagObj)

Tclh_PointerSubtagRemove(cast, tagObj) ==
    IF tagObj # NoTag /\ FindHashEntry(cast, tagObj) # {}
    THEN [table |-> DeleteHashEntry(cast, tagObj), res |-> TCL_OK]
    ELSE [table |-> cast, res |-> TCL_OK]

\* Mutant: the registration of the address is not validated.
Tclh_PointerCast_NoValidation(ptrs, cast, pv, oldTag, newTag) ==
    LET he == FindHashEntry(ptrs, pv) IN
    IF /\ ~PointerTypeCompatible(cast, oldTag, newTag)
       /\ ~PointerTypeCompatible(cast, newTag, oldTag)
    THEN [pointers |-> ptrs, res |-> TypeMismatch,
          obj |-> Tclh_PointerWrap(NULL, NoTag)]
    ELSE [pointers |->
              IF \E ptrRec \in he : ptrRec.nRefs # TCLH_POINTER_NREFS_MAX
              THEN SetHashValue(ptrs, pv,
                       TclhPointerRecord(newTag,
                           (CHOOSE ptrRec \in he : TRUE).nRefs))
              ELSE ptrs,
          res |-> TCL_OK,
          obj |-> Tclh_PointerWrap(pv, newTag)]

\* Mutant: only a cast to the same tag or to a supertag passes.
Tclh_PointerCast_UpcastOnly(ptrs, cast, pv, oldTag, newTag) ==
    LET he == FindHashEntry(ptrs, pv) IN
    IF \E ptrRec \in he :
          /\ ~PointerTypeCompatible(cast, oldTag, ptrRec.tagObj)
          /\ ~PointerTypeCompatible(cast, ptrRec.tagObj, oldTag)
    THEN [pointers |-> ptrs, res |-> TypeMismatch,
          obj |-> Tclh_PointerWrap(NULL, NoTag)]
    ELSE IF ~PointerTypeCompatible(cast, oldTag, newTag)
    THEN [pointers |-> ptrs, res |-> TypeMismatch,
          obj |-> Tclh_PointerWrap(NULL, NoTag)]
    ELSE [pointers |->
              IF \E ptrRec \in he : ptrRec.nRefs # TCLH_POINTER_NREFS_MAX
              THEN SetHashValue(ptrs, pv,
                       TclhPointerRecord(newTag,
                           (CHOOSE ptrRec \in he : TRUE).nRefs))
              ELSE ptrs,
          res |-> TCL_OK,
          obj |-> Tclh_PointerWrap(pv, newTag)]

\* Mutant: the registration changes even when pinned.
Tclh_PointerCast_RetagsPinned(ptrs, cast, pv, oldTag, newTag) ==
    LET he == FindHashEntry(ptrs, pv) IN
    IF \E ptrRec \in he :
          /\ ~PointerTypeCompatible(cast, oldTag, ptrRec.tagObj)
          /\ ~PointerTypeCompatible(cast, ptrRec.tagObj, oldTag)
    THEN [pointers |-> ptrs, res |-> TypeMismatch,
          obj |-> Tclh_PointerWrap(NULL, NoTag)]
    ELSE IF /\ ~PointerTypeCompatible(cast, oldTag, newTag)
            /\ ~PointerTypeCompatible(cast, newTag, oldTag)
    THEN [pointers |-> ptrs, res |-> TypeMismatch,
          obj |-> Tclh_PointerWrap(NULL, NoTag)]
    ELSE [pointers |->
              IF he # {}
              THEN SetHashValue(ptrs, pv,
                       TclhPointerRecord(newTag,
                           (CHOOSE ptrRec \in he : TRUE).nRefs))
              ELSE ptrs,
          res |-> TCL_OK,
          obj |-> Tclh_PointerWrap(pv, newTag)]

\* Tclh_PointerCast of the handle (pv, oldTag) to newTag.
Tclh_PointerCast(ptrs, cast, pv, oldTag, newTag) ==
    LET he == FindHashEntry(ptrs, pv) IN
    IF \E ptrRec \in he :
          /\ ~PointerTypeCompatible(cast, oldTag, ptrRec.tagObj)
          /\ ~PointerTypeCompatible(cast, ptrRec.tagObj, oldTag)
    THEN [pointers |-> ptrs, res |-> TypeMismatch,
          obj |-> Tclh_PointerWrap(NULL, NoTag)]
    ELSE IF /\ ~PointerTypeCompatible(cast, oldTag, newTag)
            /\ ~PointerTypeCompatible(cast, newTag, oldTag)
    THEN [pointers |-> ptrs, res |-> TypeMismatch,
          obj |-> Tclh_PointerWrap(NULL, NoTag)]
    ELSE [pointers |->
              \* the registration changes unless pinned
              IF \E ptrRec \in he : ptrRec.nRefs # TCLH_POINTER_NREFS_MAX
              THEN SetHashValue(ptrs, pv,
                       TclhPointerRecord(newTag,
                           (CHOOSE ptrRec \in he : TRUE).nRefs))
              ELSE ptrs,
          res |-> TCL_OK,
          obj |-> Tclh_PointerWrap(pv, newTag)]

\* Mutant: the stored tag taken as the actual one.
PointerRegistrationStatus_Swapped(ptrs, cast, pv, tag) ==
    IF pv \notin DOMAIN ptrs
    THEN TCLH_POINTER_REGISTRATION_MISSING
    ELSE LET rel == PointerTagCompare(cast, ptrs[pv].tagObj, tag)
         IN  IF rel = TCLH_TAG_RELATION_EQUAL
             THEN TCLH_POINTER_REGISTRATION_OK
             ELSE IF rel = TCLH_TAG_RELATION_IMPLICITLY_CASTABLE
             THEN TCLH_POINTER_REGISTRATION_DERIVED
             ELSE TCLH_POINTER_REGISTRATION_WRONGTAG

PointerRegistrationStatus(ptrs, cast, pv, tag) ==
    IF pv \notin DOMAIN ptrs
    THEN TCLH_POINTER_REGISTRATION_MISSING
    ELSE LET rel == PointerTagCompare(cast, tag, ptrs[pv].tagObj)
         IN  IF rel = TCLH_TAG_RELATION_EQUAL
             THEN TCLH_POINTER_REGISTRATION_OK
             ELSE IF rel = TCLH_TAG_RELATION_IMPLICITLY_CASTABLE
             THEN TCLH_POINTER_REGISTRATION_DERIVED
             ELSE TCLH_POINTER_REGISTRATION_WRONGTAG

\* Tclh_PointerObjDissect of the handle (pv, tag): the four values it stores
\* through its out parameters; it returns TCL_OK.
Tclh_PointerObjDissect(ptrs, cast, pv, tag, expectedTag) ==
    [pv |-> pv,
     ptrTag |-> tag,
     tagMatch |-> PointerTagCompare(cast, tag, expectedTag),
     registered |-> PointerRegistrationStatus(ptrs, cast, pv, tag)]

\* Mutant: the filter taken as the actual tag and the stored tag as the
\* expected one.
Tclh_PointerEnumerate_Swapped(ptrs, tag) ==
    LET getAll == tag = NoTag
        t == IF tag # NoTag /\ Len(tag) = 0 THEN NoTag ELSE tag
    IN  {Tclh_PointerWrap(pv, ptrs[pv].tagObj) :
            pv \in {k \in DOMAIN ptrs :
                       \/ getAll
                       \/ t = ptrs[k].tagObj
                       \/ /\ t # NoTag
                          /\ PointerTypeMatchesExpected(t, ptrs[k].tagObj)}}

\* Tclh_PointerEnumerate: the handles of the list it returns, one for each
\* entry of the table the filter lets through. The filter NoTag (a NULL tag)
\* matches all, the empty string only the entries without a tag.
Tclh_PointerEnumerate(ptrs, tag) ==
    LET getAll == tag = NoTag
        t == IF tag # NoTag /\ Len(tag) = 0 THEN NoTag ELSE tag
    IN  {Tclh_PointerWrap(pv, ptrs[pv].tagObj) :
            pv \in {k \in DOMAIN ptrs :
                       \/ getAll
                       \/ t = ptrs[k].tagObj
                       \/ /\ t # NoTag
                          /\ PointerTypeMatchesExpected(ptrs[k].tagObj, t)}}

----------------------------------------------------------------------------
(* The string form of a handle. A string rep is a sequence of characters,  *)
(* each a string of length one.                                            *)

InvalidValue == "InvalidValue"      \* Tclh_ErrorInvalidValue

\* The characters of %x output, by value.
HexChars ==
    <<"0", "1", "2", "3", "4", "5", "6", "7", "8", "9",
      "a", "b", "c", "d", "e", "f">>

\* The upper case letters that %x input accepts as well.
UpperHexChars == <<"A", "B", "C", "D", "E", "F">>

IsHexChar(c) ==
    \/ \E i \in DOMAIN HexChars : HexChars[i] = c
    \/ \E i \in DOMAIN UpperHexChars : UpperHexChars[i] = c

HexCharValue(c) ==
    IF \E i \in DOMAIN HexChars : HexChars[i] = c
    THEN (CHOOSE i \in DOMAIN HexChars : HexChars[i] = c) - 1
    ELSE (CHOOSE i \in DOMAIN UpperHexChars : UpperHexChars[i] = c) + 9

\* The string of a sequence of characters.
RECURSIVE Join(_)
Join(chars) ==
    IF chars = <<>> THEN "" ELSE Head(chars) \o Join(Tail(chars))

\* The tags the handles of SpecCodec carry, as sequences of characters.
CodecTagChars ==
    {<<>>, <<"D", "o", "g">>, <<"A", "^", "B">>, <<"N", "U", "L", "L">>,
     <<"0", "x", "1">>}

CodecTags == {Join(chars) : chars \in CodecTagChars}

\* Tcl_GetString of a tag: its characters.
Tcl_GetString(tag) == CHOOSE chars \in CodecTagChars : Join(chars) = tag

\* The digits of %x for a value: none for 0.
RECURSIVE HexDigits(_)
HexDigits(value) ==
    IF value = 0
    THEN <<>>
    ELSE HexDigits(value \div 16) \o <<HexChars[(value % 16) + 1]>>

\* count zeros.
RECURSIVE Zeros(_)
Zeros(count) == IF count <= 0 THEN <<>> ELSE <<"0">> \o Zeros(count - 1)

\* Mutant: no precision, the digits of %x alone (0 for the value 0).
TclhPrintAddress_NoPrecision(address, digits) ==
    <<"0", "x">> \o Zeros(1 - Len(HexDigits(address))) \o HexDigits(address)

\* TclhPrintAddress: "0x%.8x" where a pointer has the size of an int and
\* "0x%.16llx" elsewhere; digits is the precision, the least number of
\* digits written.
TclhPrintAddress(address, digits) ==
    <<"0", "x">> \o Zeros(digits - Len(HexDigits(address)))
                 \o HexDigits(address)

\* The precisions of the two builds.
PointerDigits == {8, 16}

\* UpdatePointerTypeString: the string rep of the handle (pv, tagObj).
UpdatePointerTypeString(pv, tagObj, digits) ==
    LET tagStr == IF tagObj # NoTag THEN Tcl_GetString(tagObj) ELSE <<>>
    IN  TclhPrintAddress(pv, digits) \o <<"^">> \o tagStr

\* The number of hexadecimal digits of srep from position i on.
RECURSIVE HexRun(_, _)
HexRun(srep, i) ==
    IF i <= Len(srep) /\ IsHexChar(srep[i])
    THEN 1 + HexRun(srep, i + 1)
    ELSE 0

\* The value of a sequence of hexadecimal digits.
RECURSIVE HexValue(_)
HexValue(chars) ==
    IF chars = <<>>
    THEN 0
    ELSE HexValue(SubSeq(chars, 1, Len(chars) - 1)) * 16
             + HexCharValue(chars[Len(chars)])

\* sscanf(srep, "0x%llx%c%n") (or "0x%x%c%n"): the number of fields
\* assigned, the value, the terminator and the count of characters consumed.
\* The strings scanned have no white space, sign or second 0x after the 0x.
Sscanf(srep) ==
    IF Len(srep) >= 2 /\ srep[1] = "0" /\ srep[2] = "x"
          /\ HexRun(srep, 3) >= 1
    THEN LET n == HexRun(srep, 3)
             value == HexValue(SubSeq(srep, 3, 2 + n))
         IN  IF Len(srep) >= 3 + n
             THEN [nfields |-> 2, value |-> value,
                   terminator |-> srep[3 + n], consumed |-> 3 + n]
             ELSE [nfields |-> 1, value |-> value,
                   terminator |-> "", consumed |-> 0]
    ELSE [nfields |-> 0, value |-> 0, terminator |-> "", consumed |-> 0]

\* SetPointerFromAny: the handle parsed from the string rep srep.
SetPointerFromAny(srep) ==
    LET s == Sscanf(srep) IN
    IF s.nfields = 2 /\ s.terminator = "^"
    THEN [res |-> TCL_OK, pv |-> s.value,
          tagObj |-> IF s.consumed = Len(srep)
                     THEN NoTag
                     ELSE Join(SubSeq(srep, s.consumed + 1, Len(srep)))]
    ELSE IF srep = <<"N", "U", "L", "L">>
    THEN [res |-> TCL_OK, pv |-> NULL, tagObj |-> NoTag]
    ELSE [res |-> InvalidValue, pv |-> NULL, tagObj |-> NoTag]

----------------------------------------------------------------------------
(* The calls that take a handle object. The object is given by its string  *)
(* rep, from which SetPointerFromAny makes the handle.                     *)

WrongType == "WrongType"            \* Tclh_ErrorPointerObjType

\* Mutant: the expected tag is not checked.
Tclh_PointerUnwrapTagged_Unchecked(cast, objP, expectedTag) ==
    LET h == SetPointerFromAny(objP) IN
    IF h.res # TCL_OK
    THEN [res |-> h.res, pv |-> NULL, tag |-> NoTag]
    ELSE [res |-> TCL_OK, pv |-> h.pv, tag |-> h.tagObj]

\* Tclh_PointerUnwrapTagged: the result, and the address and the tag stored
\* through pvP and tagP.
Tclh_PointerUnwrapTagged(cast, objP, expectedTag) ==
    LET h == SetPointerFromAny(objP) IN
    IF h.res # TCL_OK
    THEN [res |-> h.res, pv |-> NULL, tag |-> NoTag]
    ELSE IF /\ expectedTag # NoTag
            /\ h.pv # NULL \/ h.tagObj # NoTag
            /\ h.tagObj # expectedTag
            /\ ~PointerTypeCompatible(cast, h.tagObj, expectedTag)
    THEN [res |-> WrongType, pv |-> NULL, tag |-> NoTag]
    ELSE [res |-> TCL_OK, pv |-> h.pv, tag |-> h.tagObj]

\* Tclh_PointerObjVerify.
Tclh_PointerObjVerify(ptrs, cast, objP, expectedTag) ==
    LET u == Tclh_PointerUnwrapTagged(cast, objP, expectedTag) IN
    IF u.res # TCL_OK
    THEN [pointers |-> ptrs, res |-> u.res]
    ELSE IF u.pv = NULL
    THEN [pointers |-> ptrs, res |-> NullPointer]
    ELSE Tclh_PointerVerifyTagged(ptrs, cast, u.pv, u.tag)

\* Tclh_PointerObjCompare: the result and the value stored through resultP,
\* 0 for different addresses, 1 for the same address and tag, -1 for the
\* same address and different tags.
Tclh_PointerObjCompare(ptr1Obj, ptr2Obj) ==
    LET h1 == SetPointerFromAny(ptr1Obj)
        h2 == SetPointerFromAny(ptr2Obj)
    IN  IF h1.res # TCL_OK \/ h2.res # TCL_OK
        THEN [res |-> InvalidValue, result |-> 0]
        ELSE IF h1.pv # h2.pv
        THEN [res |-> TCL_OK, result |-> 0]
        ELSE IF h1.tagObj = h2.tagObj
        THEN [res |-> TCL_OK, result |-> 1]
        ELSE [res |-> TCL_OK, result |-> -1]

\* Tclh_PointerRegistered.
Tclh_PointerRegistered(ptrs, pv) ==
    IF pv = NULL THEN 0 ELSE IF FindHashEntry(ptrs, pv) # {} THEN 1 ELSE 0

----------------------------------------------------------------------------
(* The owning context: the interpreter, Tclh_LibContext.pointerRegistryP,  *)
(* the callbacks Tcl_CallWhenDeleted holds, and the references the         *)
(* registry holds on tag objects.                                          *)

\* A tag is followed up to MaxRefs references held by the registry.
MaxRefs == 3

TCL_ERROR == "TCL_ERROR"

\* A NULL interp or tclhCtxP argument of Tclh_PointerLibInit.
NullArg == "NULL"
LibInitArgs == {NullArg, "given"}

\* The references held on tag: a tag nothing refers to has no row.
Ref(refs, tag) == IF tag \in DOMAIN refs THEN refs[tag] ELSE 0

AddRef(refs, tag, d) ==
    LET n == Ref(refs, tag) + d
        keys == (DOMAIN refs \ {tag}) \cup (IF n = 0 THEN {} ELSE {tag})
    IN  [t \in keys |-> IF t = tag THEN n ELSE refs[t]]

\* if (tag) Tcl_IncrRefCount(tag)
Tcl_IncrRefCount(refs, tag) ==
    IF tag = NoTag THEN refs ELSE AddRef(refs, tag, 1)

\* if (tag) Tcl_DecrRefCount(tag)
Tcl_DecrRefCount(refs, tag) ==
    IF tag = NoTag THEN refs ELSE AddRef(refs, tag, -1)

\* The references of TclhPointerRecordFree on the record rec.
TclhPointerRecordFree(refs, rec) == Tcl_DecrRefCount(refs, rec.tagObj)

\* The references after TclhPointerRegister, branch by branch.
TclhPointerRegisterRefs(refs, ptrs, cast, pointer, tag, registration) ==
    IF pointer = NULL
    THEN refs
    ELSE IF FindHashEntry(ptrs, pointer) = {}
    THEN IF tag # NoTag /\ registration # TCLH_PINNED_POINTER
         THEN Tcl_IncrRefCount(refs, tag)
         ELSE refs
    ELSE LET ptrRecP == ptrs[pointer]
             tagCompatible == PointerTypeCompatible(cast, tag, ptrRecP.tagObj)
         IN  IF ptrRecP.nRefs = TCLH_POINTER_NREFS_MAX
             THEN refs
             ELSE IF registration = TCLH_PINNED_POINTER
             THEN Tcl_DecrRefCount(refs, ptrRecP.tagObj)
             ELSE IF /\ tagCompatible
                     /\ registration = TCLH_UNCOUNTED_POINTER
                     /\ ptrRecP.nRefs < 0
             THEN refs
             ELSE IF /\ tagCompatible
                     /\ registration = TCLH_COUNTED_POINTER
                     /\ ptrRecP.nRefs > 0
             THEN refs
             ELSE Tcl_IncrRefCount(Tcl_IncrRefCount(refs, tag),
                                   ptrRecP.tagObj)

\* The references after a call that turned the table ptrs into after: the
\* record of pointer goes through TclhPointerRecordFree where its entry is
\* deleted.
DeletedRecordRefs(refs, ptrs, after, pointer) ==
    IF FindHashEntry(ptrs, pointer) # {} /\ FindHashEntry(after, pointer) = {}
    THEN TclhPointerRecordFree(refs, ptrs[pointer])
    ELSE refs

\* The references after Tclh_PointerSubtagDefine.
Tclh_PointerSubtagDefineRefs(refs, cast, subtagObj, supertagObj) ==
    IF /\ supertagObj # NoTag
       /\ subtagObj # supertagObj
       /\ Tclh_HashAdd(cast, subtagObj, supertagObj).res = TCL_OK
    THEN Tcl_IncrRefCount(refs, supertagObj)
    ELSE refs

\* The references after Tclh_PointerSubtagRemove.
Tclh_PointerSubtagRemoveRefs(refs, cast, tagObj) ==
    IF tagObj # NoTag /\ FindHashEntry(cast, tagObj) # {}
    THEN Tcl_DecrRefCount(refs, cast[tagObj])
    ELSE refs

\* The references after Tclh_PointerCast returned res.
Tclh_PointerCastRefs(refs, ptrs, pv, newTag, res) ==
    IF /\ res = TCL_OK
       /\ FindHashEntry(ptrs, pv) # {}
       /\ ptrs[pv].nRefs # TCLH_POINTER_NREFS_MAX
    THEN Tcl_DecrRefCount(Tcl_IncrRefCount(refs, newTag), ptrs[pv].tagObj)
    ELSE refs

RECURSIVE FreeRecords(_, _)
\* The first loop of TclhCleanupPointerRegistry.
FreeRecords(refs, ptrs) ==
    IF DOMAIN ptrs = {}
    THEN refs
    ELSE LET p == CHOOSE p \in DOMAIN ptrs : TRUE
         IN  FreeRecords(TclhPointerRecordFree(refs, ptrs[p]),
                         [q \in DOMAIN ptrs \ {p} |-> ptrs[q]])

RECURSIVE FreeSupertags(_, _)
\* The second loop of TclhCleanupPointerRegistry.
FreeSupertags(refs, cast) ==
    IF DOMAIN cast = {}
    THEN refs
    ELSE LET s == CHOOSE s \in DOMAIN cast : TRUE
         IN  FreeSupertags(Tcl_DecrRefCount(refs, cast[s]),
                           [q \in DOMAIN cast \ {s} |-> cast[q]])

\* Mutant: the pinned entries stay.
TclhCleanupPointerRegistry_KeepsPinned(refs, ptrs, cast) ==
    [refs |-> FreeSupertags(FreeRecords(refs, ptrs), cast),
     pointers |-> [p \in {q \in DOMAIN ptrs :
                             ptrs[q].nRefs = TCLH_POINTER_NREFS_MAX}
                      |-> ptrs[p]],
     castables |-> EmptyTable]

\* TclhCleanupPointerRegistry: every record is freed, both tables are
\* deleted, the registry is freed.
TclhCleanupPointerRegistry(refs, ptrs, cast) ==
    [refs |-> FreeSupertags(FreeRecords(refs, ptrs), cast),
     pointers |-> EmptyTable,
     castables |-> EmptyTable]

\* The context of an interpreter whose registry Tclh_PointerLibInit made;
\* its tag references are not followed.
LiveContext ==
    [interp |-> "live", registryP |-> "live", whenDeleted |-> 1,
     cleanups |-> 0, track |-> FALSE, refs |-> EmptyTable]

\* The context Tclh_LibInit made, before any Tclh_PointerLibInit.
NewContext ==
    [interp |-> "live", registryP |-> NullArg, whenDeleted |-> 0,
     cleanups |-> 0, track |-> TRUE, refs |-> EmptyTable]

\* Tclh_PointerLibInit on the context c. With tclhCtxP NULL the context is
\* the one Tclh_LibInit keeps for the interpreter, which is c. A first
\* initialisation without an interpreter hands NULL to Tcl_CallWhenDeleted,
\* which reads through it: the process ends there.
Tclh_PointerLibInit(c, interp, tclhCtxP) ==
    IF tclhCtxP = NullArg /\ interp = NullArg
    THEN [ctx |-> c, res |-> TCL_ERROR]
    ELSE IF c.registryP # NullArg
    THEN [ctx |-> c, res |-> TCL_OK]
    ELSE IF interp = NullArg
    THEN [ctx |-> [c EXCEPT !.interp = "crashed"], res |-> TCL_ERROR]
    ELSE [ctx |-> [c EXCEPT !.registryP = "live", !.whenDeleted = @ + 1],
          res |-> TCL_OK]

\* The calls that return a Tclh_ReturnCode and look the registry up.
RegistryOps ==
    {"Register", "Unregister", "UnregisterUntagged", "Invalidate", "Verify",
     "SubtagDefine", "SubtagRemove", "Dissect", "Cast"}

\* What a call returns where TclhPointerGetRegistry returns NULL: every call
\* returns TCL_ERROR, except Tclh_PointerCast, which skips its checks and
\* wraps the new handle.
NoRegistryResult(op) == IF op = "Cast" THEN TCL_OK ELSE TCL_ERROR

----------------------------------------------------------------------------
(* History variables: what has been called on each address.                *)

\* kind "none": nothing is recorded about the address.
\* kind "unc" : the address had no entry, and since then exactly n >= 1
\*              calls register(p, tag, Uncounted) were made on it (n is
\*              tracked up to MaxRun).
\* kind "uncU": such a run, followed by one call unregister(p, tag).
\* kind "cnt" : the address had no entry, and since then exactly n calls
\*              register(p, tag, Counted) followed by u calls
\*              unregister(p, tag) were made on it (n is tracked up to
\*              TCLH_POINTER_NREFS_MAX and u up to MaxCount + 1, which
\*              stand for that many or more).
\* kind "pin" : register(p, NULL tag, Pinned) was called on the address and
\*              since then only register and unregister calls were.
\* Calls that only read (verify) end no run.
Run(kind, tag, n, u) == [kind |-> kind, tag |-> tag, n |-> n, u |-> u]
NoRun == Run("none", NoTag, 0, 0)

HistRegister(h, he, tag, registration) ==
    IF registration = TCLH_PINNED_POINTER /\ tag = NoTag
    THEN Run("pin", NoTag, 0, 0)
    ELSE IF h.kind = "pin"
    THEN h
    ELSE IF registration = TCLH_UNCOUNTED_POINTER
    THEN IF he = {}
         THEN Run("unc", tag, 1, 0)
         ELSE IF h.kind = "unc" /\ h.tag = tag
         THEN Run("unc", tag, IF h.n < MaxRun THEN h.n + 1 ELSE h.n, 0)
         ELSE NoRun
    ELSE IF registration = TCLH_COUNTED_POINTER
    THEN IF he = {}
         THEN Run("cnt", tag, 1, 0)
         ELSE IF h.kind = "cnt" /\ h.tag = tag /\ h.u = 0
         THEN Run("cnt", tag,
                  IF h.n < TCLH_POINTER_NREFS_MAX THEN h.n + 1 ELSE h.n, 0)
         ELSE NoRun
    ELSE NoRun

HistUnregister(h, tag) ==
    IF h.kind = "pin"
    THEN h
    ELSE IF h.kind = "unc" /\ h.tag = tag
    THEN Run("uncU", tag, h.n, 1)
    ELSE IF h.kind = "cnt" /\ h.tag = tag /\ h.u < h.n
    THEN Run("cnt", tag, h.n, IF h.u <= MaxCount THEN h.u + 1 ELSE h.u)
    ELSE NoRun

\* The scenario on address 0x1000 with the tags Foo and Bar:
\*   1 register(0x1000, Foo, Uncounted) on an empty registry,
\*   2 verify(0x1000, Foo), 3 register(0x1000, Bar, Uncounted),
\*   4 verify(0x1000, Foo), 5 unregister(0x1000, Bar), 6 verify(0x1000, Bar).
\* scen is the number of the last step made when the calls so far are
\* exactly the scenario's, made while Foo and Bar are unrelated tags; else 0.
ScenarioAddress == 16 * 256      \* 0x1000
ScenarioSteps ==
    <<[op |-> "Register", tag |-> "Foo"], [op |-> "Verify", tag |-> "Foo"],
      [op |-> "Register", tag |-> "Bar"], [op |-> "Verify", tag |-> "Foo"],
      [op |-> "Unregister", tag |-> "Bar"], [op |-> "Verify", tag |-> "Bar"]>>

Unrelated(cast, tagA, tagB) ==
    /\ PointerTagCompare(cast, tagA, tagB) = TCLH_TAG_RELATION_UNRELATED
    /\ PointerTagCompare(cast, tagB, tagA) = TCLH_TAG_RELATION_UNRELATED

ScenNext(op, pointer, tag, registration) ==
    LET matches(i) ==
            /\ ScenarioSteps[i].op = op
            /\ ScenarioSteps[i].tag = tag
            /\ pointer = ScenarioAddress
            /\ op = "Register" => registration = TCLH_UNCOUNTED_POINTER
            /\ Unrelated(castables, "Foo", "Bar")
    IN  IF scen < Len(ScenarioSteps) /\ scen >= 1 /\ matches(scen + 1)
        THEN scen + 1
        ELSE IF matches(1) /\ pointers = EmptyTable
        THEN 1
        ELSE 0

----------------------------------------------------------------------------
(* The state machine: one action per call.                                 *)

\* The lowest count of the band explored below TCLH_POINTER_NREFS_MAX.
NearMax == TCLH_POINTER_NREFS_MAX - MaxCount

\* The counts explored.
InBounds(ptrs) ==
    \A a \in DOMAIN ptrs :
        \/ ptrs[a].nRefs \in (0 - MaxCount)..MaxCount
        \/ ptrs[a].nRefs >= NearMax

\* A call: its arguments, its result, and the two tables as it found them.
Call(op, pointer, tag, tag2, registration, res) ==
    [op |-> op, pointer |-> pointer, tag |-> tag, tag2 |-> tag2,
     registration |-> registration, res |-> res,
     ptrs |-> pointers, cast |-> castables]

\* The record the last call found for its pointer: a set, empty for none.
LastFound == FindHashEntry(last.ptrs, last.pointer)

\* TclhPointerGetRegistry returns the registry of a live interpreter.
HasRegistry == ctx.interp = "live" /\ ctx.registryP = "live"

\* The references become refs, where they are followed.
TrackRefs(refs) ==
    IF ctx.track
    THEN /\ \A t \in DOMAIN refs : refs[t] <= MaxRefs
         /\ ctx' = [ctx EXCEPT !.refs = refs]
    ELSE UNCHANGED ctx

\* The registry after Tclh_PointerLibInit.
InitEmpty ==
    /\ pointers = EmptyTable
    /\ castables = EmptyTable
    /\ last = [op |-> "none", pointer |-> NULL, tag |-> NoTag,
               tag2 |-> NoTag, registration |-> "none", res |-> TCL_OK,
               ptrs |-> EmptyTable, cast |-> EmptyTable]
    /\ hist = [a \in Addresses |-> NoRun]
    /\ scen = 0
    /\ ctx = LiveContext

\* The registry after NearMax calls of
\* Tclh_PointerRegisterCounted(0x1000, Foo) on the registry InitEmpty.
InitNearMax ==
    /\ pointers = SetHashValue(EmptyTable, ScenarioAddress,
                               TclhPointerRecord("Foo", NearMax))
    /\ castables = EmptyTable
    /\ last = [op |-> "Register", pointer |-> ScenarioAddress, tag |-> "Foo",
               tag2 |-> NoTag, registration |-> TCLH_COUNTED_POINTER,
               res |-> TCL_OK,
               ptrs |-> SetHashValue(EmptyTable, ScenarioAddress,
                                     TclhPointerRecord("Foo", NearMax - 1)),
               cast |-> EmptyTable,
               obj |-> Tclh_PointerWrap(ScenarioAddress, "Foo")]
    /\ hist = [a \in Addresses |->
                  IF a = ScenarioAddress
                  THEN Run("cnt", "Foo", NearMax, 0) ELSE NoRun]
    /\ scen = 0
    /\ ctx = LiveContext

Init == InitEmpty \/ InitNearMax

HistSet(pointer, run) ==
    IF pointer \in Addresses
    THEN [hist EXCEPT ![pointer] = run]
    ELSE hist

Register(pointer, tag, registration) ==
    LET r == TclhPointerRegister(pointers, castables, pointer, tag,
                                 registration)
    IN  /\ InBounds(r.pointers)
        /\ pointers' = r.pointers
        /\ last' = Call("Register", pointer, tag, NoTag, registration, r.res)
                       @@ [obj |-> r.obj]
        /\ hist' = IF pointer \in Addresses
                   THEN HistSet(pointer,
                                HistRegister(hist[pointer],
                                             FindHashEntry(pointers, pointer),
                                             tag, registration))
                   ELSE hist
        /\ HasRegistry
        /\ scen' = ScenNext("Register", pointer, tag, registration)
        /\ TrackRefs(TclhPointerRegisterRefs(ctx.refs, pointers, castables,
                                             pointer, tag, registration))
        /\ UNCHANGED castables

UnregisterTagged(pointer, tag) ==
    LET r == Tclh_PointerUnregisterTagged(pointers, castables, pointer, tag)
    IN  /\ InBounds(r.pointers)
        /\ pointers' = r.pointers
        /\ last' = Call("Unregister", pointer, tag, NoTag, "none", r.res)
        /\ hist' = IF pointer \in Addresses
                   THEN HistSet(pointer, HistUnregister(hist[pointer], tag))
                   ELSE hist
        /\ HasRegistry
        /\ scen' = ScenNext("Unregister", pointer, tag, "none")
        /\ TrackRefs(DeletedRecordRefs(ctx.refs, pointers, r.pointers,
                                       pointer))
        /\ UNCHANGED castables

Unregister(pointer) ==
    LET r == Tclh_PointerUnregister(pointers, pointer)
    IN  /\ InBounds(r.pointers)
        /\ pointers' = r.pointers
        /\ last' = Call("UnregisterUntagged", pointer, NoTag, NoTag, "none",
                        r.res)
        /\ hist' = IF pointer \in Addresses
                   THEN HistSet(pointer,
                                IF hist[pointer].kind = "pin"
                                THEN hist[pointer] ELSE NoRun)
                   ELSE hist
        /\ HasRegistry
        /\ scen' = 0
        /\ TrackRefs(DeletedRecordRefs(ctx.refs, pointers, r.pointers,
                                       pointer))
        /\ UNCHANGED castables

InvalidateTagged(pointer, tag) ==
    LET r == Tclh_PointerInvalidateTagged(pointers, castables, pointer, tag)
    IN  /\ pointers' = r.pointers
        /\ last' = Call("Invalidate", pointer, tag, NoTag, "none", r.res)
        /\ hist' = HistSet(pointer, NoRun)
        /\ HasRegistry
        /\ scen' = 0
        /\ TrackRefs(DeletedRecordRefs(ctx.refs, pointers, r.pointers,
                                       pointer))
        /\ UNCHANGED castables

VerifyTagged(pointer, tag) ==
    LET r == Tclh_PointerVerifyTagged(pointers, castables, pointer, tag)
    IN  /\ pointers' = r.pointers
        /\ last' = Call("Verify", pointer, tag, NoTag, "none", r.res)
        /\ HasRegistry
        /\ scen' = ScenNext("Verify", pointer, tag, "none")
        /\ UNCHANGED ctx
        /\ UNCHANGED <<castables, hist>>

SubtagDefine(subtagObj, supertagObj) ==
    LET r == Tclh_PointerSubtagDefine(castables, subtagObj, supertagObj)
    IN  /\ castables' = r.table
        /\ last' = Call("SubtagDefine", NULL, subtagObj, supertagObj, "none",
                        r.res)
        /\ HasRegistry
        /\ scen' = 0
        /\ TrackRefs(Tclh_PointerSubtagDefineRefs(ctx.refs, castables,
                                                  subtagObj, supertagObj))
        /\ UNCHANGED <<pointers, hist>>

SubtagRemove(tagObj) ==
    LET r == Tclh_PointerSubtagRemove(castables, tagObj)
    IN  /\ castables' = r.table
        /\ last' = Call("SubtagRemove", NULL, tagObj, NoTag, "none", r.res)
        /\ HasRegistry
        /\ scen' = 0
        /\ TrackRefs(Tclh_PointerSubtagRemoveRefs(ctx.refs, castables, tagObj))
        /\ UNCHANGED <<pointers, hist>>

\* Tclh_PointerCast of the handle (pointer, oldTag) to newTag.
Cast(pointer, oldTag, newTag) ==
    LET r == Tclh_PointerCast(pointers, castables, pointer, oldTag, newTag)
    IN  /\ pointers' = r.pointers
        /\ last' = Call("Cast", pointer, oldTag, newTag, "none", r.res)
                       @@ [obj |-> r.obj]
        /\ hist' = HistSet(pointer, NoRun)
        /\ HasRegistry
        /\ scen' = 0
        /\ TrackRefs(Tclh_PointerCastRefs(ctx.refs, pointers, pointer, newTag,
                                          r.res))
        /\ UNCHANGED castables

\* PointerTagCompare of tag against expectedTag; the relation is the result.
TagCompare(tag, expectedTag) ==
    /\ last' = Call("TagCompare", NULL, tag, expectedTag, "none",
                    PointerTagCompare(castables, tag, expectedTag))
    /\ HasRegistry
    /\ scen' = 0
    /\ UNCHANGED ctx
    /\ UNCHANGED <<pointers, castables, hist>>

\* Tclh_PointerObjDissect of the handle (pointer, tag) against expectedTag.
Dissect(pointer, tag, expectedTag) ==
    /\ last' = Call("Dissect", pointer, tag, expectedTag, "none", TCL_OK)
                   @@ [obj |-> Tclh_PointerWrap(pointer, tag),
                       out |-> Tclh_PointerObjDissect(pointers, castables,
                                                      pointer, tag,
                                                      expectedTag)]
    /\ HasRegistry
    /\ scen' = 0
    /\ UNCHANGED ctx
    /\ UNCHANGED <<pointers, castables, hist>>

\* Tclh_PointerEnumerate with the filter tag.
Enumerate(tag) ==
    /\ last' = Call("Enumerate", NULL, tag, NoTag, "none", TCL_OK)
                   @@ [list |-> Tclh_PointerEnumerate(pointers, tag)]
    /\ HasRegistry
    /\ scen' = 0
    /\ UNCHANGED ctx
    /\ UNCHANGED <<pointers, castables, hist>>

\* Tcl_GetString of the handle Tclh_PointerWrap(pointer, tag), on a build
\* whose TclhPrintAddress writes at least digits digits.
Format(pointer, tag, digits) ==
    /\ last' = Call("Format", pointer, tag, NoTag, "none", TCL_OK)
                   @@ [obj |-> Tclh_PointerWrap(pointer, tag),
                       srep |-> UpdatePointerTypeString(pointer, tag, digits),
                       digits |-> digits]
    /\ scen' = 0
    /\ UNCHANGED ctx
    /\ UNCHANGED <<pointers, castables, hist>>

\* SetPointerFromAny of a value holding the string the last call formatted:
\* the handle obj is the one formatted, (pointer, tag) the one parsed.
Reparse ==
    /\ last.op = "Format"
    /\ LET r == SetPointerFromAny(last.srep)
       IN  last' = Call("Reparse", r.pv, r.tagObj, NoTag, "none", r.res)
                       @@ [obj |-> last.obj, srep |-> last.srep]
    /\ scen' = 0
    /\ UNCHANGED ctx
    /\ UNCHANGED <<pointers, castables, hist>>

\* SetPointerFromAny of a value holding the string srep.
Parse(srep) ==
    /\ LET r == SetPointerFromAny(srep)
       IN  last' = Call("Parse", r.pv, r.tagObj, NoTag, "none", r.res)
                       @@ [srep |-> srep]
    /\ scen' = 0
    /\ UNCHANGED ctx
    /\ UNCHANGED <<pointers, castables, hist>>

\* Tclh_PointerUnwrapTagged of the object objP against expectedTag.
UnwrapTagged(objP, expectedTag) ==
    /\ LET u == Tclh_PointerUnwrapTagged(castables, objP, expectedTag)
       IN  last' = Call("UnwrapTagged", u.pv, u.tag, expectedTag, "none",
                        u.res)
                       @@ [srep |-> objP]
    /\ HasRegistry
    /\ scen' = 0
    /\ UNCHANGED ctx
    /\ UNCHANGED <<pointers, castables, hist>>

\* Tclh_PointerObjVerify of the object objP against expectedTag; pointer and
\* tag are those of the handle, where it parses.
ObjVerify(objP, expectedTag) ==
    /\ LET r == Tclh_PointerObjVerify(pointers, castables, objP, expectedTag)
           h == SetPointerFromAny(objP)
       IN  /\ pointers' = r.pointers
           /\ last' = Call("ObjVerify", h.pv, h.tagObj, expectedTag, "none",
                           r.res)
                          @@ [srep |-> objP, parsed |-> h.res]
    /\ HasRegistry
    /\ scen' = 0
    /\ UNCHANGED ctx
    /\ UNCHANGED <<castables, hist>>

\* Tclh_PointerObjCompare of two objects.
ObjCompare(ptr1Obj, ptr2Obj) ==
    /\ LET r == Tclh_PointerObjCompare(ptr1Obj, ptr2Obj)
       IN  last' = Call("ObjCompare", NULL, NoTag, NoTag, "none", r.res)
                       @@ [srep |-> ptr1Obj, srep2 |-> ptr2Obj,
                           result |-> r.result]
    /\ scen' = 0
    /\ UNCHANGED ctx
    /\ UNCHANGED <<pointers, castables, hist>>

\* Tclh_PointerRegistered of the address pointer.
RegisteredQuery(pointer) ==
    /\ last' = Call("Registered", pointer, NoTag, NoTag, "none", TCL_OK)
                   @@ [result |-> Tclh_PointerRegistered(pointers, pointer)]
    /\ HasRegistry
    /\ scen' = 0
    /\ UNCHANGED ctx
    /\ UNCHANGED <<pointers, castables, hist>>

----------------------------------------------------------------------------
(* Spec: every call on one address (and on NULL), with every tag.          *)

\* The subtag edges the calls define.
SubtagInputs ==
    {<<"Dog", "Animal">>, <<"Animal", "Dog">>, <<"Dog", "Dog">>,
     <<"Dog", NoTag>>}

OneAddress == {ScenarioAddress, NULL}

Next ==
    \/ \E p \in OneAddress, t \in TagsOrNull, r \in RegistrationTypes :
          Register(p, t, r)
    \/ \E p \in OneAddress, t \in TagsOrNull : UnregisterTagged(p, t)
    \/ \E p \in OneAddress : Unregister(p)
    \/ \E p \in OneAddress, t \in TagsOrNull : InvalidateTagged(p, t)
    \/ \E p \in OneAddress, t \in TagsOrNull : VerifyTagged(p, t)
    \/ \E p \in OneAddress, t \in TagsOrNull, n \in TagsOrNull : Cast(p, t, n)
    \/ \E e \in SubtagInputs : SubtagDefine(e[1], e[2])
    \/ \E t \in {"Dog", "Animal", NoTag} : SubtagRemove(t)

Spec == Init /\ [][Next]_vars

----------------------------------------------------------------------------
(* SpecTwo: the calls on two addresses, with the tags Dog and Animal, on a *)
(* registry that starts empty.                                             *)

TwoTags == {"Dog", "Animal", NoTag}

\* The (address, tag) pairs of the calls: every tag on the first address,
\* one tag on the second.
TwoInputs ==
    ({4096} \X TwoTags) \cup {<<8192, "Animal">>}

NextTwo ==
    \/ \E i \in TwoInputs, r \in RegistrationTypes : Register(i[1], i[2], r)
    \/ \E i \in TwoInputs : UnregisterTagged(i[1], i[2])
    \/ \E i \in TwoInputs : InvalidateTagged(i[1], i[2])
    \/ \E i \in TwoInputs : VerifyTagged(i[1], i[2])
    \/ SubtagDefine("Dog", "Animal")
    \/ SubtagRemove("Dog")

SpecTwo == InitEmpty /\ [][NextTwo]_vars

----------------------------------------------------------------------------
(* SpecTags: the subtag edges among all the tags, and the tag relation     *)
(* queried on them.                                                        *)

NextTags ==
    \/ \E sub \in Tags, super \in TagsOrNull : SubtagDefine(sub, super)
    \/ \E t \in TagsOrNull : SubtagRemove(t)
    \/ \E a \in TagsOrNull, b \in TagsOrNull : TagCompare(a, b)

SpecTags == InitEmpty /\ [][NextTags]_vars

----------------------------------------------------------------------------
(* SpecChain: one address and a chain of subtags T0 -> T1 -> ... longer    *)
(* than the depth of the supertag lookups.                                 *)

ChainTag(i) == "T" \o ToString(i)

ChainTags == {ChainTag(i) : i \in 0..ChainEdges}

\* The place of a tag in the chain.
ChainIndex(tag) == CHOOSE i \in 0..ChainEdges : ChainTag(i) = tag

\* The castables table after Tclh_PointerSubtagDefine(Ti, Ti+1) for every
\* edge of the chain.
ChainTable ==
    [tag \in {ChainTag(i) : i \in 0..(ChainEdges - 1)} |->
        ChainTag(ChainIndex(tag) + 1)]

InitChain ==
    /\ pointers = EmptyTable
    /\ castables = ChainTable
    /\ last = [op |-> "SubtagDefine", pointer |-> NULL,
               tag |-> ChainTag(0), tag2 |-> ChainTag(1),
               registration |-> "none", res |-> TCL_OK,
               ptrs |-> EmptyTable,
               cast |-> DeleteHashEntry(ChainTable, ChainTag(0))]
    /\ hist = [a \in Addresses |-> NoRun]
    /\ scen = 0
    /\ ctx = LiveContext

NextChain ==
    \/ \E t \in ChainTags :
          Register(ScenarioAddress, t, TCLH_UNCOUNTED_POINTER)
    \/ \E t \in ChainTags : VerifyTagged(ScenarioAddress, t)
    \/ \E a \in ChainTags, b \in ChainTags : TagCompare(a, b)

SpecChain == InitChain /\ [][NextChain]_vars

----------------------------------------------------------------------------
(* SpecQuery: the queries dissect and enumerate on a registry of two       *)
(* addresses.                                                              *)

\* The filters of enumerate: all, untyped only, and two tags.
Filters == {NoTag, "", "Dog", "Animal"}

NextQuery ==
    \/ \E p \in Addresses, t \in TwoTags :
          Register(p, t, TCLH_UNCOUNTED_POINTER)
    \/ \E p \in Addresses : Unregister(p)
    \/ SubtagDefine("Dog", "Animal")
    \/ SubtagRemove("Dog")
    \/ \E p \in {4096, NULL}, t \in TagsOrNull, e \in TwoTags :
          Dissect(p, t, e)
    \/ \E f \in Filters : Enumerate(f)

SpecQuery == InitEmpty /\ [][NextQuery]_vars

----------------------------------------------------------------------------
(* SpecCodec: handles formatted to their string form, and strings parsed.  *)

\* The addresses of the handles formatted: NULL, the registry's addresses,
\* and values with every kind of digit.
CodecAddresses == Addresses \cup {NULL, 43981, 2147483647, 16 * 16 * 16 - 1}

\* The strings parsed besides the formatted ones.
CodecStrings ==
    {<<"N", "U", "L", "L">>,
     <<"0", "x", "1", "0", "^", "D", "o", "g">>,
     <<"0", "x", "A", "b", "^">>,
     <<"0", "x", "1", "0">>,
     <<"0", "x", "1", "0", "x">>,
     <<"0", "x", "^">>,
     <<"D", "o", "g">>,
     <<>>}

NextCodec ==
    \/ \E p \in CodecAddresses, t \in CodecTags \cup {NoTag},
          d \in PointerDigits : Format(p, t, d)
    \/ Reparse
    \/ \E s \in CodecStrings : Parse(s)

SpecCodec == InitEmpty /\ [][NextCodec]_vars

----------------------------------------------------------------------------
(* SpecAgree: verify on one address under the tags of the chain and under  *)
(* no tag, the chain open or closed into a cycle.                          *)

AgreeTags == ChainTags \cup {NoTag}

NextAgree ==
    \/ \E t \in AgreeTags :
          Register(ScenarioAddress, t, TCLH_UNCOUNTED_POINTER)
    \/ \E p \in OneAddress, t \in AgreeTags : VerifyTagged(p, t)
    \/ SubtagDefine(ChainTag(ChainEdges), ChainTag(0))
    \/ SubtagRemove(ChainTag(ChainEdges))

SpecAgree == InitChain /\ [][NextAgree]_vars

----------------------------------------------------------------------------
(* SpecFrame: the calls of SpecTwo and cast, on two addresses.             *)

NextFrame ==
    \/ \E i \in TwoInputs, r \in RegistrationTypes : Register(i[1], i[2], r)
    \/ \E i \in TwoInputs : UnregisterTagged(i[1], i[2])
    \/ \E i \in TwoInputs : InvalidateTagged(i[1], i[2])
    \/ \E i \in TwoInputs : VerifyTagged(i[1], i[2])
    \/ \E i \in TwoInputs, n \in TwoTags : Cast(i[1], i[2], n)
    \/ SubtagDefine("Dog", "Animal")
    \/ SubtagRemove("Dog")

SpecFrame == InitEmpty /\ [][NextFrame]_vars

----------------------------------------------------------------------------
(* SpecObj: the calls that read the registry, those on handle objects      *)
(* included, on a registry of two addresses.                               *)

\* The string reps of the objects: handles of the two addresses and of
\* NULL, the string NULL, and a string that is no handle.
ObjStrings ==
    {<<"0", "x", "1", "0", "0", "0", "^", "D", "o", "g">>,
     <<"0", "x", "1", "0", "0", "0", "^", "A", "n", "i", "m", "a", "l">>,
     <<"0", "x", "1", "0", "0", "0", "^">>,
     <<"0", "x", "2", "0", "0", "0", "^", "A", "n", "i", "m", "a", "l">>,
     <<"0", "x", "0", "^", "D", "o", "g">>,
     <<"0", "x", "0", "^">>,
     <<"N", "U", "L", "L">>,
     <<"D", "o", "g">>}

\* The objects the others are compared with.
ComparedStrings ==
    {<<"0", "x", "1", "0", "0", "0", "^", "D", "o", "g">>,
     <<"0", "x", "0", "^">>,
     <<"D", "o", "g">>}

NextObj ==
    \/ \E t \in {"Dog", "Animal"} : Register(4096, t, TCLH_COUNTED_POINTER)
    \/ Register(8192, "Animal", TCLH_UNCOUNTED_POINTER)
    \/ SubtagDefine("Dog", "Animal")
    \/ SubtagRemove("Dog")
    \/ \E i \in TwoInputs : VerifyTagged(i[1], i[2])
    \/ \E t \in TwoTags, e \in TwoTags : Dissect(4096, t, e)
    \/ \E f \in Filters : Enumerate(f)
    \/ \E p \in Addresses \cup {NULL} : RegisteredQuery(p)
    \/ \E p \in {4096, NULL}, t \in {"Dog", NoTag} : Format(p, t, 16)
    \/ \E s \in ObjStrings, e \in TwoTags : UnwrapTagged(s, e)
    \/ \E s1 \in ObjStrings, s2 \in ComparedStrings : ObjCompare(s1, s2)
    \/ \E s \in ObjStrings, e \in TwoTags : ObjVerify(s, e)

SpecObj == InitEmpty /\ [][NextObj]_vars

----------------------------------------------------------------------------
(* SpecLife: one context from Tclh_LibInit to the deletion of its          *)
(* interpreter, with the tag references of its registry followed.          *)

\* The context after Tclh_LibInit: no registry yet.
InitNoRegistry ==
    /\ pointers = EmptyTable
    /\ castables = EmptyTable
    /\ last = [op |-> "none", pointer |-> NULL, tag |-> NoTag,
               tag2 |-> NoTag, registration |-> "none", res |-> TCL_OK,
               ptrs |-> EmptyTable, cast |-> EmptyTable]
    /\ hist = [a \in Addresses |-> NoRun]
    /\ scen = 0
    /\ ctx = NewContext

\* Tclh_PointerLibInit(interp, tclhCtxP); a new registry has empty tables.
LibInit(interp, tclhCtxP) ==
    LET r == Tclh_PointerLibInit(ctx, interp, tclhCtxP)
    IN  /\ ctx.interp = "live"
        /\ ctx' = r.ctx
        /\ last' = Call("LibInit", NULL, NoTag, NoTag, "none", r.res)
                       @@ [registryP |-> ctx.registryP]
        /\ scen' = 0
        /\ UNCHANGED <<pointers, castables, hist>>

\* A call of RegistryOps on a context without a registry.
NoRegistry(op, pointer, tag, tag2) ==
    /\ ctx.interp = "live"
    /\ ctx.registryP = NullArg
    /\ last' = Call(op, pointer, tag, tag2, "none", NoRegistryResult(op))
                   @@ [registryP |-> ctx.registryP]
    /\ scen' = 0
    /\ UNCHANGED <<pointers, castables, hist, ctx>>

\* Tcl_DeleteInterp: every callback Tcl_CallWhenDeleted holds runs
\* TclhCleanupPointerRegistry once.
DeleteInterp ==
    LET r == TclhCleanupPointerRegistry(ctx.refs, pointers, castables)
        ran == ctx.whenDeleted > 0
    IN  /\ ctx.interp = "live"
        /\ pointers' = IF ran THEN r.pointers ELSE pointers
        /\ castables' = IF ran THEN r.castables ELSE castables
        /\ ctx' = [ctx EXCEPT !.interp = "deleted",
                              !.registryP = IF ran THEN "freed" ELSE @,
                              !.cleanups = @ + ctx.whenDeleted,
                              !.whenDeleted = 0,
                              !.refs = IF ran /\ ctx.track THEN r.refs ELSE @]
        /\ last' = Call("DeleteInterp", NULL, NoTag, NoTag, "none", TCL_OK)
                       @@ [registryP |-> ctx.registryP]
        /\ hist' = [a \in Addresses |-> NoRun]
        /\ scen' = 0

LifeTags == {"Dog", "Animal"}

NextLife ==
    \/ \E interp \in LibInitArgs, tclhCtxP \in LibInitArgs :
          LibInit(interp, tclhCtxP)
    \/ DeleteInterp
    \/ \E op \in RegistryOps : NoRegistry(op, 4096, "Dog", "Animal")
    \/ \E t \in LifeTags, r \in RegistrationTypes : Register(4096, t, r)
    \/ \E r \in RegistrationTypes : Register(8192, "Animal", r)
    \/ \E t \in LifeTags : UnregisterTagged(4096, t)
    \/ Unregister(8192)
    \/ \E t \in LifeTags : InvalidateTagged(4096, t)
    \/ \E o \in LifeTags, n \in LifeTags : Cast(4096, o, n)
    \/ SubtagDefine("Dog", "Animal")
    \/ SubtagRemove("Dog")

SpecLife == InitNoRegistry /\ [][NextLife]_vars

----------------------------------------------------------------------------
(* The claims.                                                             *)

\* "Compatible": the relation of the actual tag to the expected tag is
\* Equal or ImplicitlyCastable.
EqualOrImplicit(cast, actual, expected) ==
    PointerTagCompare(cast, actual, expected)
        \in {TCLH_TAG_RELATION_EQUAL, TCLH_TAG_RELATION_IMPLICITLY_CASTABLE}

OnlyDogToAnimal == SetHashValue(EmptyTable, "Dog", "Animal")

C2_VerifyNullTagSucceeds ==
    last.op = "Verify" /\ last.tag = NoTag /\ LastFound # {}
        => last.res = TCL_OK


Registered(p) == p \in DOMAIN pointers

VerifyNow(p, tag) == Tclh_PointerVerifyTagged(pointers, castables, p, tag).res

\* The last call was `op` on address p.
LastOn(op, p) == last.op = op /\ last.pointer = p

\* C3: k >= 1 consecutive register(p, t, Uncounted) calls on an unregistered
\* p all succeed and verify(p, t) succeeds after each of them; one single
\* unregister(p, t) afterwards succeeds and removes the entry, after which
\* verify(p, t) fails with NotRegistered, however large k was.
C3_RegistrationIdempotence ==
    \A p \in Addresses :
        /\ hist[p].kind = "unc" =>
              /\ Registered(p)
              /\ LastOn("Register", p) => last.res = TCL_OK
              /\ VerifyNow(p, hist[p].tag) = TCL_OK
              /\ LastOn("Verify", p) /\ last.tag = hist[p].tag
                    => last.res = TCL_OK
        /\ hist[p].kind = "uncU" =>
              /\ ~Registered(p)
              /\ LastOn("Unregister", p) => last.res = TCL_OK
              /\ VerifyNow(p, hist[p].tag) = NotRegistered
              /\ LastOn("Verify", p) /\ last.tag = hist[p].tag
                    => last.res = NotRegistered

\* Three or more uncounted registrations, undone by the one unregister.
C3_Witness ==
    /\ hist[ScenarioAddress].kind = "uncU"
    /\ hist[ScenarioAddress].n = MaxRun
    /\ LastOn("Unregister", ScenarioAddress)
    /\ ~Registered(ScenarioAddress)

C5_PinImmunity ==
    \A p \in Addresses :
        hist[p].kind = "pin" =>
            /\ Registered(p)
            /\ VerifyNow(p, NoTag) = TCL_OK
            /\ LastOn("Unregister", p) \/ LastOn("UnregisterUntagged", p)
                  => last.res = TCL_OK

UnregisterEffect(ptrs, pointer, ptrRec) ==
    IF ptrRec.nRefs = TCLH_POINTER_NREFS_MAX THEN ptrs             \* Pinned
    ELSE IF ptrRec.nRefs = -1 THEN DeleteHashEntry(ptrs, pointer)  \* Uncounted
    ELSE IF ptrRec.nRefs = 1 THEN DeleteHashEntry(ptrs, pointer)   \* Counted(1)
    ELSE SetHashValue(ptrs, pointer,
             TclhPointerRecord(ptrRec.tagObj, ptrRec.nRefs - 1))

\* C7, as stated: unregister(p, t) on an entry whose stored tag is compatible
\* with t (the stored tag Equal or ImplicitlyCastable to t) returns success
\* and changes only that entry, by lifetime.
C7_UnregisterStoredCompatibleWithT ==
    last.op = "Unregister" =>
        \A r \in LastFound :
            EqualOrImplicit(last.cast, r.tagObj, last.tag) =>
                /\ last.res = TCL_OK
                /\ pointers = UnregisterEffect(last.ptrs, last.pointer, r)
                /\ castables = last.cast

\* C7, amended: unregister(p, t) on an entry with which t is compatible (t
\* Equal or ImplicitlyCastable to the stored tag) returns success and
\* changes only that entry, by lifetime: Uncounted and Counted(1) removed,
\* Counted(n > 1) to Counted(n - 1) with the stored tag, Pinned unchanged.
C7_UnregisterTCompatibleWithStored ==
    last.op = "Unregister" =>
        \A r \in LastFound :
            EqualOrImplicit(last.cast, last.tag, r.tagObj) =>
                /\ last.res = TCL_OK
                /\ pointers = UnregisterEffect(last.ptrs, last.pointer, r)
                /\ castables = last.cast

\* unregister(0x1000, Dog) took an entry Counted(2) under Animal to
\* Counted(1) while 0x2000 stayed registered.
C7_Witness ==
    /\ last.op = "Unregister" /\ last.tag = "Dog" /\ last.res = TCL_OK
    /\ LastFound = {TclhPointerRecord("Animal", 2)}
    /\ pointers[last.pointer] = TclhPointerRecord("Animal", 1)
    /\ 8192 \in DOMAIN pointers

\* C8, as stated: unregister(p, t) fails with NotRegistered when p has no
\* entry and with TypeMismatch when the relation of the stored tag to t is
\* Unrelated or ExplicitlyCastable, the registry staying as it was.
C8_UnregisterFailsStoredToT ==
    last.op = "Unregister" =>
        /\ LastFound = {} =>
              /\ last.res = NotRegistered
              /\ pointers = last.ptrs /\ castables = last.cast
        /\ \A r \in LastFound :
              PointerTagCompare(last.cast, r.tagObj, last.tag)
                  \in {TCLH_TAG_RELATION_UNRELATED,
                       TCLH_TAG_RELATION_EXPLICITLY_CASTABLE} =>
                  /\ last.res = TypeMismatch
                  /\ pointers = last.ptrs /\ castables = last.cast

\* C8, amended: the same with the relation taken of t to the stored tag.
C8_UnregisterFailsTToStored ==
    last.op = "Unregister" =>
        /\ LastFound = {} =>
              /\ last.res = NotRegistered
              /\ pointers = last.ptrs /\ castables = last.cast
        /\ \A r \in LastFound :
              PointerTagCompare(last.cast, last.tag, r.tagObj)
                  \in {TCLH_TAG_RELATION_UNRELATED,
                       TCLH_TAG_RELATION_EXPLICITLY_CASTABLE} =>
                  /\ last.res = TypeMismatch
                  /\ pointers = last.ptrs /\ castables = last.cast

\* unregister(p, Animal) refused on an entry under Dog, Dog a subtag of
\* Animal: Animal is only explicitly castable to Dog.
C8_Witness ==
    /\ last.op = "Unregister" /\ last.tag = "Animal"
    /\ last.res = TypeMismatch
    /\ last.cast = OnlyDogToAnimal
    /\ \E r \in LastFound : r.tagObj = "Dog" /\ pointers[last.pointer] = r

\* An entry appears only through a register call on its address.
OnlyRegisterAdds ==
    \A p \in Addresses :
        p \in DOMAIN pointers /\ p \notin DOMAIN last.ptrs =>
            LastOn("Register", p)

\* C9, as stated: invalidate(p, t) removes the entry of p for every lifetime
\* and every tag t; afterwards every verify(p, *) fails with NotRegistered
\* until p is registered again.
C9_InvalidateUnconditional ==
    /\ last.op = "Invalidate" =>
          /\ ~Registered(last.pointer)
          /\ \A t \in TagsOrNull : VerifyNow(last.pointer, t) = NotRegistered
    /\ OnlyRegisterAdds

\* C9, amended: invalidate(p, t) removes the entry of p for every lifetime
\* when t is Equal or ImplicitlyCastable to the stored tag, after which every
\* verify(p, *) fails with NotRegistered until p is registered again; for
\* any other t it fails with TypeMismatch and the entry stays as it was.
C9_InvalidateCompatible ==
    /\ last.op = "Invalidate" =>
          \A r \in LastFound :
              IF EqualOrImplicit(last.cast, last.tag, r.tagObj)
              THEN /\ last.res = TCL_OK
                   /\ pointers = DeleteHashEntry(last.ptrs, last.pointer)
                   /\ \A t \in TagsOrNull :
                         VerifyNow(last.pointer, t) = NotRegistered
              ELSE /\ last.res = TypeMismatch
                   /\ pointers = last.ptrs
    /\ OnlyRegisterAdds

\* invalidate removed a pinned entry.
C9_Witness ==
    /\ last.op = "Invalidate" /\ last.res = TCL_OK
    /\ LastFound = {TclhPointerRecord(NoTag, TCLH_POINTER_NREFS_MAX)}
    /\ ~Registered(last.pointer)

\* C10: with no entry for p, invalidate(p, t) returns success and leaves the
\* registry unchanged while unregister, tagged or not, fails with
\* NotRegistered and leaves it unchanged too.
C10_MissingEntry ==
    LastFound = {} =>
        /\ last.op = "Invalidate" =>
              /\ last.res = TCL_OK
              /\ pointers = last.ptrs /\ castables = last.cast
        /\ last.op \in {"Unregister", "UnregisterUntagged"} =>
              /\ last.res = NotRegistered
              /\ pointers = last.ptrs /\ castables = last.cast

\* invalidate of an address that is not registered, others being so.
C10_Witness ==
    /\ LastOn("Invalidate", ScenarioAddress)
    /\ LastFound = {}
    /\ last.res = TCL_OK
    /\ pointers = last.ptrs

\* The lifetime of a record: Uncounted, Counted(n) or Pinned.
IsUncounted(ptrRec) == ptrRec.nRefs = -1
IsCounted(ptrRec) == ptrRec.nRefs >= 1 /\ ptrRec.nRefs < TCLH_POINTER_NREFS_MAX
IsPinned(ptrRec) == ptrRec.nRefs = TCLH_POINTER_NREFS_MAX

\* The counting discipline of the record differs from that of the mode.
DisciplineDiffers(ptrRec, registration) ==
    \/ registration = TCLH_UNCOUNTED_POINTER /\ IsCounted(ptrRec)
    \/ registration = TCLH_COUNTED_POINTER /\ IsUncounted(ptrRec)

\* The record register(p, t, mode) writes when it overwrites.
Overwritten(tag, registration) ==
    TclhPointerRecord(
        tag, IF registration = TCLH_UNCOUNTED_POINTER THEN -1 ELSE 1)

\* The last call was register(p, t, mode), p not null, mode Uncounted or
\* Counted.
LastRegisterCounting ==
    /\ last.op = "Register" /\ last.pointer # NULL
    /\ last.registration
          \in {TCLH_UNCOUNTED_POINTER, TCLH_COUNTED_POINTER}

C12_ReRegisterRaisesError ==
    LastRegisterCounting =>
        \A r \in LastFound :
            /\ ~IsPinned(r)
            /\ \/ ~PointerTagsSame(last.tag, r.tagObj)
               \/ DisciplineDiffers(r, last.registration)
            => last.res # TCL_OK

\* The last call was register(p, t, Counted) with Dog -> Animal the only
\* edge.
LastRegisterCountedDogAnimal ==
    /\ last.op = "Register" /\ last.pointer # NULL
    /\ last.registration = TCLH_COUNTED_POINTER
    /\ last.cast = OnlyDogToAnimal

LastRegisterPinned ==
    /\ last.op = "Register" /\ last.pointer # NULL
    /\ last.registration = TCLH_PINNED_POINTER

\* C14: register(p, t, Pinned) creates, on a new address, the entry
\* (none, Pinned) whatever t is and turns an existing Uncounted or
\* Counted(n) entry into (none, Pinned).
C14_PinnedWins ==
    LastRegisterPinned =>
        /\ last.res = TCL_OK
        /\ LastFound = {} \/ (\E r \in LastFound : IsUncounted(r) \/ IsCounted(r))
              => pointers = SetHashValue(last.ptrs, last.pointer,
                                TclhPointerRecord(NoTag,
                                                  TCLH_POINTER_NREFS_MAX))

\* register(p, Foo, Pinned) on an entry (Bar, Counted(2)).
C14_Witness ==
    /\ LastRegisterPinned /\ last.tag = "Foo"
    /\ LastFound = {TclhPointerRecord("Bar", 2)}
    /\ pointers[last.pointer] = TclhPointerRecord(NoTag, TCLH_POINTER_NREFS_MAX)

\* C15: register(p, t, mode) on an address whose entry is Pinned returns
\* success and leaves the entry as it was, for every tag and mode.
C15_PinnedUnaffected ==
    last.op = "Register" =>
        \A r \in LastFound :
            IsPinned(r) => last.res = TCL_OK /\ pointers = last.ptrs

\* register(p, Foo, Uncounted) on an entry (none, Pinned).
C15_Witness ==
    /\ last.op = "Register" /\ last.tag = "Foo"
    /\ last.registration = TCLH_UNCOUNTED_POINTER
    /\ LastFound = {TclhPointerRecord(NoTag, TCLH_POINTER_NREFS_MAX)}
    /\ pointers = last.ptrs

\* C16, as stated: the handle register(p, t, mode) returns is (p, s), s the
\* tag stored in the entry of p after the call.
C16_HandleHasStoredTag ==
    last.op = "Register" /\ last.res = TCL_OK =>
        last.obj = <<last.pointer, pointers[last.pointer].tagObj>>

\* C16, amended: the handle register(p, t, mode) returns is (p, t), t the
\* tag passed to the call; t differs from the tag stored after the call
\* only when the entry is Pinned or the call registered an existing entry
\* again under a tag compatible with the stored one.
C16_HandleHasPassedTag ==
    last.op = "Register" /\ last.res = TCL_OK =>
        /\ last.obj = <<last.pointer, last.tag>>
        /\ last.tag # pointers[last.pointer].tagObj =>
              \/ IsPinned(pointers[last.pointer])
              \/ \E r \in LastFound :
                    /\ EqualOrImplicit(last.cast, last.tag, r.tagObj)
                    /\ pointers[last.pointer].tagObj = r.tagObj

\* register(p, Dog, Uncounted) on an entry under Animal returns (p, Dog).
C16_Witness ==
    /\ last.op = "Register" /\ last.res = TCL_OK
    /\ last.obj = <<ScenarioAddress, "Dog">>
    /\ pointers[ScenarioAddress] = TclhPointerRecord("Animal", -1)

\* C17: register(null, t, mode) fails with NullPointer and creates no
\* entry; the null address is never a key of the registry.
C17_NullNotRegistered ==
    /\ NULL \notin DOMAIN pointers
    /\ last.op = "Register" /\ last.pointer = NULL =>
          last.res = NullPointer /\ pointers = last.ptrs

\* register(null, Foo, Counted) refused on a registry that has an entry.
C17_Witness ==
    /\ last.op = "Register" /\ last.pointer = NULL
    /\ last.tag = "Foo" /\ last.registration = TCLH_COUNTED_POINTER
    /\ last.res = NullPointer
    /\ pointers # EmptyTable

\* C18: in every reachable state every entry whose lifetime is Pinned has
\* the tag none.
C18_PinnedHasNoTag ==
    \A a \in DOMAIN pointers :
        IsPinned(pointers[a]) => pointers[a].tagObj = NoTag

\* The last call was a counted registration again of a counted or saturated
\* entry under a compatible tag: an increment.
LastIncrement ==
    /\ last.op = "Register" /\ last.pointer # NULL
    /\ last.registration = TCLH_COUNTED_POINTER
    /\ \E r \in LastFound :
          /\ r.nRefs >= 1
          /\ EqualOrImplicit(last.cast, last.tag, r.tagObj)

RECURSIVE Supertags(_, _, _)
Supertags(cast, tag, hops) ==
    IF hops = 0 \/ tag \notin DOMAIN cast
    THEN {}
    ELSE {cast[tag]} \cup Supertags(cast, cast[tag], hops - 1)

\* b is an ancestor of a through the subtag edges (within the hop bound).
IsAncestorOf(cast, b, a) == b \in Supertags(cast, a, AncestorDepth)

\* C20: the relation of the actual tag a to the expected tag b is exactly
\* one of four: Equal iff a and b are the same value or both none;
\* otherwise ImplicitlyCastable iff b is none or b is an ancestor of a;
\* otherwise ExplicitlyCastable iff a is none or a is an ancestor of b;
\* otherwise Unrelated.
C20_TagRelation ==
    last.op = "TagCompare" =>
        LET a == last.tag
            b == last.tag2
        IN  last.res =
                IF a = b
                THEN TCLH_TAG_RELATION_EQUAL
                ELSE IF b = NoTag \/ IsAncestorOf(last.cast, b, a)
                THEN TCLH_TAG_RELATION_IMPLICITLY_CASTABLE
                ELSE IF a = NoTag \/ IsAncestorOf(last.cast, a, b)
                THEN TCLH_TAG_RELATION_EXPLICITLY_CASTABLE
                ELSE TCLH_TAG_RELATION_UNRELATED

\* Foo against Dog with the edges Dog -> Animal -> Foo: a downcast over two
\* edges.
C20_Witness ==
    /\ last.op = "TagCompare"
    /\ last.tag = "Foo" /\ last.tag2 = "Dog"
    /\ last.cast = SetHashValue(OnlyDogToAnimal, "Animal", "Foo")
    /\ last.res = TCLH_TAG_RELATION_EXPLICITLY_CASTABLE

\* Every tag connected to tag by the subtag edges, however many.
Connected(cast, tag) == Supertags(cast, tag, Cardinality(DOMAIN cast))

\* C21: whatever the subtag edges, cyclic ones included, the relation of
\* two tags neither of which is reached from the other over the edges is
\* Unrelated, and neither is compatible with the other.
C21_CycleSafety ==
    last.op = "TagCompare" =>
        LET a == last.tag
            b == last.tag2
        IN  /\ a # NoTag /\ b # NoTag /\ a # b
            /\ b \notin Connected(last.cast, a)
            /\ a \notin Connected(last.cast, b)
            => /\ last.res = TCLH_TAG_RELATION_UNRELATED
               /\ ~PointerTypeCompatible(last.cast, a, b)
               /\ ~PointerTypeCompatible(last.cast, b, a)

\* Dog against Foo with the cycle Dog -> Animal -> Dog.
C21_Witness ==
    /\ last.op = "TagCompare"
    /\ last.tag = "Dog" /\ last.tag2 = "Foo"
    /\ last.cast = SetHashValue(OnlyDogToAnimal, "Animal", "Dog")
    /\ last.res = TCLH_TAG_RELATION_UNRELATED

\* The number of edges of the chain from tag a up to tag b (negative: down).
EdgesUp(a, b) == ChainIndex(b) - ChainIndex(a)

\* C22: a supertag 1 to 10 subtag edges above the actual tag is found and
\* one 11 or more edges above is not, in the relation of two tags
\* (ImplicitlyCastable or Unrelated) and in the compatibility check of
\* verify (success or TypeMismatch) alike.
C22_HopBound ==
    /\ last.op = "TagCompare" /\ last.cast = ChainTable =>
          LET d == EdgesUp(last.tag, last.tag2) IN
          /\ d \in 1..10 =>
                last.res = TCLH_TAG_RELATION_IMPLICITLY_CASTABLE
          /\ d >= 11 => last.res = TCLH_TAG_RELATION_UNRELATED
    /\ last.op = "Verify" /\ last.cast = ChainTable =>
          \A r \in LastFound :
              LET d == EdgesUp(last.tag, r.tagObj) IN
              /\ d \in 1..10 => last.res = TCL_OK
              /\ d >= 11 => last.res = TypeMismatch

\* verify(p, T0) refused on an entry under T11, eleven edges above T0.
C22_Witness ==
    /\ last.op = "Verify" /\ last.tag = ChainTag(0)
    /\ LastFound = {TclhPointerRecord(ChainTag(11), -1)}
    /\ last.res = TypeMismatch

\* The relation of the actual tag a to the expected tag b.
TagRelation(cast, a, b) ==
    IF a = b
    THEN TCLH_TAG_RELATION_EQUAL
    ELSE IF b = NoTag \/ IsAncestorOf(cast, b, a)
    THEN TCLH_TAG_RELATION_IMPLICITLY_CASTABLE
    ELSE IF a = NoTag \/ IsAncestorOf(cast, a, b)
    THEN TCLH_TAG_RELATION_EXPLICITLY_CASTABLE
    ELSE TCLH_TAG_RELATION_UNRELATED

\* C23: dissect(handle, expectedTag) returns the address and the tag of the
\* handle, the relation of the handle's tag to expectedTag, and a status
\* that is Missing iff the address has no entry, Ok iff it has one and the
\* handle's tag equals the stored tag, Derived iff it has one and the
\* handle's tag is ImplicitlyCastable to the stored tag, and WrongTag in
\* every other case with an entry.
C23_Dissect ==
    last.op = "Dissect" =>
        LET o == last.out
            stored == {r.tagObj : r \in LastFound}
            rels == {TagRelation(last.cast, last.tag, s) : s \in stored}
        IN  /\ last.res = TCL_OK
            /\ o.pv = last.pointer
            /\ o.ptrTag = last.tag
            /\ o.tagMatch = TagRelation(last.cast, last.tag, last.tag2)
            /\ o.registered \in
                  {TCLH_POINTER_REGISTRATION_MISSING,
                   TCLH_POINTER_REGISTRATION_OK,
                   TCLH_POINTER_REGISTRATION_DERIVED,
                   TCLH_POINTER_REGISTRATION_WRONGTAG}
            /\ o.registered = TCLH_POINTER_REGISTRATION_MISSING
                  <=> stored = {}
            /\ o.registered = TCLH_POINTER_REGISTRATION_OK
                  <=> rels = {TCLH_TAG_RELATION_EQUAL}
            /\ o.registered = TCLH_POINTER_REGISTRATION_DERIVED
                  <=> rels = {TCLH_TAG_RELATION_IMPLICITLY_CASTABLE}
            /\ pointers = last.ptrs /\ castables = last.cast

\* dissect of the handle (p, Dog) on the entry (p, Animal), Dog a subtag of
\* Animal: Derived.
C23_Witness ==
    /\ last.op = "Dissect"
    /\ last.tag = "Dog"
    /\ LastFound = {TclhPointerRecord("Animal", -1)}
    /\ last.cast = OnlyDogToAnimal
    /\ last.out.registered = TCLH_POINTER_REGISTRATION_DERIVED

\* The handles of the entries of ptrs that satisfy keep.
HandlesOf(ptrs, keep(_)) ==
    {<<p, ptrs[p].tagObj>> : p \in {k \in DOMAIN ptrs : keep(ptrs[k].tagObj)}}

\* C27: enumerate returns one handle (address, stored tag) for each
\* qualifying entry and nothing else: every entry with the filter "any",
\* the entries whose stored tag is none with the untyped filter, and the
\* entries whose stored tag equals t with the filter t, subtags of t left
\* out.
C27_Enumerate ==
    last.op = "Enumerate" =>
        /\ last.tag = NoTag =>
              last.list = HandlesOf(last.ptrs, LAMBDA s : TRUE)
        /\ last.tag = "" =>
              last.list = HandlesOf(last.ptrs, LAMBDA s : s = NoTag)
        /\ last.tag \notin {NoTag, ""} =>
              last.list = HandlesOf(last.ptrs, LAMBDA s : s = last.tag)
        /\ pointers = last.ptrs

\* enumerate(Animal) with Dog a subtag of Animal, one address under Animal
\* and the other under Dog: only the first is listed.
C27_Witness ==
    /\ last.op = "Enumerate" /\ last.tag = "Animal"
    /\ last.cast = OnlyDogToAnimal
    /\ last.ptrs = SetHashValue(
                       SetHashValue(EmptyTable, 4096,
                                    TclhPointerRecord("Animal", -1)),
                       8192, TclhPointerRecord("Dog", -1))
    /\ last.list = {<<4096, "Animal">>}

\* Two tags are related: equal, one an ancestor of the other within the hop
\* bound, or either one none.
Related(cast, a, b) ==
    \/ a = b
    \/ a = NoTag
    \/ b = NoTag
    \/ IsAncestorOf(cast, b, a)
    \/ IsAncestorOf(cast, a, b)

C25_NoDowncast ==
    last.op = "Cast" /\ last.res = TCL_OK =>
        ~ /\ last.tag # NoTag /\ last.tag2 # NoTag /\ last.tag # last.tag2
          /\ IsAncestorOf(last.cast, last.tag, last.tag2)
          /\ ~IsAncestorOf(last.cast, last.tag2, last.tag)

\* C26: after a successful cast of a handle for address p to newTag, a
\* non-Pinned entry of p has the stored tag newTag and its count unchanged,
\* so that verify(p, t) answers as the compatibility of t with newTag says; a
\* Pinned entry stays as it was, (none, Pinned) included; and there is no
\* entry when there was none. No other address and no subtag edge changes.
C26_CastRetags ==
    last.op = "Cast" /\ last.res = TCL_OK =>
        LET p == last.pointer IN
        /\ \A r \in LastFound :
              IF IsPinned(r)
              THEN /\ FindHashEntry(pointers, p) = {r}
                   /\ r.tagObj = NoTag => pointers[p].tagObj = NoTag
              ELSE /\ FindHashEntry(pointers, p) =
                          {TclhPointerRecord(last.tag2, r.nRefs)}
                   /\ \A t \in Tags :
                          VerifyNow(p, t) = TCL_OK
                              <=> \/ t = last.tag2
                                  \/ last.tag2 = NoTag
                                  \/ IsAncestorOf(castables, last.tag2, t)
        /\ LastFound = {} => ~Registered(p)
        /\ \A q \in DOMAIN last.ptrs \ {p} :
              FindHashEntry(pointers, q) = {last.ptrs[q]}
        /\ DOMAIN pointers = DOMAIN last.ptrs
        /\ castables = last.cast

\* The handle (p, Dog) of the entry (p, Dog) with count 2 cast to Animal:
\* the entry is (p, Animal) with count 2.
C26_Witness ==
    /\ last.op = "Cast" /\ last.pointer = ScenarioAddress
    /\ last.tag = "Dog" /\ last.tag2 = "Animal"
    /\ last.res = TCL_OK
    /\ LastFound = {TclhPointerRecord("Dog", 2)}
    /\ FindHashEntry(pointers, ScenarioAddress) =
           {TclhPointerRecord("Animal", 2)}

\* C28: the subtag edges are a partial function without self-edge (the table
\* holds one supertag for a subtag, never the subtag itself and never none).
\* defineSubtag(t, t) and defineSubtag(t, none) succeed and store nothing;
\* any other defineSubtag(sub, super) fails and leaves the edge of sub as it
\* was when sub has one, and adds the edge when sub has none.
\* removeSubtag succeeds, removing the edge of the tag if it has one and
\* changing nothing if it has none.
C28_SubtagTable ==
    /\ \A t \in DOMAIN castables :
          castables[t] # t /\ castables[t] # NoTag
    /\ last.op = "SubtagDefine" =>
          IF last.tag2 = last.tag \/ last.tag2 = NoTag
          THEN last.res = TCL_OK /\ castables = last.cast
          ELSE IF last.tag \in DOMAIN last.cast
          THEN last.res = Exists /\ castables = last.cast
          ELSE /\ last.res = TCL_OK
               /\ DOMAIN castables = DOMAIN last.cast \cup {last.tag}
               /\ castables[last.tag] = last.tag2
               /\ \A t \in DOMAIN last.cast : castables[t] = last.cast[t]
    /\ last.op = "SubtagRemove" =>
          /\ last.res = TCL_OK
          /\ DOMAIN castables = DOMAIN last.cast \ {last.tag}
          /\ \A t \in DOMAIN castables : castables[t] = last.cast[t]

\* defineSubtag(Dog, Foo) refused when Dog is a subtag of Animal.
C28_Witness ==
    /\ last.op = "SubtagDefine"
    /\ last.tag = "Dog" /\ last.tag2 = "Foo"
    /\ "Dog" \in DOMAIN last.cast /\ last.cast["Dog"] = "Animal"
    /\ last.res = Exists
    /\ castables = last.cast

\* C29: parsing the string form produced from wrap(address, tag) yields a
\* handle with the same address and the same tag, for every address and
\* every tag, none included.
C29_RoundTrip ==
    last.op = "Reparse" =>
        /\ last.res = TCL_OK
        /\ <<last.pointer, last.tag>> = last.obj

\* The string srep is <hex-address>^<tag> for the handle (pv, tag) with the
\* address in digits digits or more: 0x, the address in lower case
\* hexadecimal digits, ^, and the tag, nothing for none.
HexCaretTag(srep, pv, tag, digits) ==
    \E n \in 1..Len(srep) :
        /\ n >= digits
        /\ Len(srep) >= 3 + n
        /\ SubSeq(srep, 1, 2) = <<"0", "x">>
        /\ \A i \in 3..(2 + n) : \E v \in DOMAIN HexChars : HexChars[v] = srep[i]
        /\ HexValue(SubSeq(srep, 3, 2 + n)) = pv
        /\ n > digits => srep[3] # "0"
        /\ srep[3 + n] = "^"
        /\ Join(SubSeq(srep, 4 + n, Len(srep))) = (IF tag = NoTag THEN "" ELSE tag)

\* C30, as stated: the string form of a handle is NULL when the address is
\* null and the tag none, and <hex-address>^<tag> in every other case.
C30_NullIsNULL ==
    last.op = "Format" =>
        IF last.pointer = NULL /\ last.tag = NoTag
        THEN last.srep = <<"N", "U", "L", "L">>
        ELSE HexCaretTag(last.srep, last.pointer, last.tag, last.digits)

\* C30, amended: the string form of a handle is <hex-address>^<tag> in every
\* case, the null address with the tag none included (0x0000000000000000^,
\* never NULL), with nothing after ^ when the tag is none; the address is
\* written as 0x and 16 lower case hexadecimal digits, 8 where a pointer has
\* the size of an int.
C30_AlwaysHexCaretTag ==
    last.op = "Format" =>
        /\ HexCaretTag(last.srep, last.pointer, last.tag, last.digits)
        /\ Len(last.srep) =
              3 + last.digits
                + Len(IF last.tag = NoTag THEN "" ELSE last.tag)
        /\ last.pointer = NULL /\ last.tag = NoTag /\ last.digits = 16 =>
              Join(last.srep) = "0x0000000000000000^"

\* The handle (NULL, none) formatted.
C30_Witness ==
    /\ last.op = "Format"
    /\ last.pointer = NULL /\ last.tag = NoTag /\ last.digits = 16
    /\ Join(last.srep) = "0x0000000000000000^"

\* C38: the lifetime of every entry is exactly one of Uncounted (-1),
\* Counted(n) with 1 <= n < maximum, and Pinned (maximum): no entry has the
\* count 0 or a count below -1, an unregister that would bring the count of
\* an entry to 0 removes the entry.
C38_LifetimeWellFormed ==
    /\ \A p \in DOMAIN pointers :
          LET r == pointers[p] IN
          /\ IsUncounted(r) \/ IsCounted(r) \/ IsPinned(r)
          /\ ~(IsUncounted(r) /\ IsCounted(r))
          /\ ~(IsUncounted(r) /\ IsPinned(r))
          /\ ~(IsCounted(r) /\ IsPinned(r))
          /\ r.nRefs # 0 /\ r.nRefs >= -1
    /\ last.op \in {"Unregister", "UnregisterUntagged"} /\ last.res = TCL_OK =>
          \A r \in LastFound : r.nRefs = 1 => ~Registered(last.pointer)

\* The last reference of a Counted entry unregistered.
C38_Witness ==
    /\ last.op = "Unregister" /\ last.res = TCL_OK
    /\ last.pointer = ScenarioAddress
    /\ \E r \in LastFound : r.nRefs = 1
    /\ ~Registered(ScenarioAddress)

\* C37: a cast of a handle for a registered address fails with TypeMismatch
\* when the handle's tag is related in neither direction to the stored tag,
\* also when the handle's tag and newTag are related; and a failing cast
\* leaves the registry as it was.
C37_CastValidatesRegistration ==
    last.op = "Cast" =>
        /\ \A r \in LastFound :
              ~Related(last.cast, last.tag, r.tagObj) =>
                  last.res = TypeMismatch
        /\ last.res # TCL_OK => pointers = last.ptrs /\ castables = last.cast

\* The handle (p, Foo) of an address registered under Bar, cast to Foo.
C37_Witness ==
    /\ last.op = "Cast" /\ last.pointer = ScenarioAddress
    /\ last.tag = "Foo" /\ last.tag2 = "Foo"
    /\ \E r \in LastFound : r.tagObj = "Bar"
    /\ last.res = TypeMismatch
    /\ pointers = last.ptrs

\* C34, as stated: Tclh_PointerInvalidate on a pointer whose stored tag is
\* not compatible with the tag passed (the stored tag neither Equal nor
\* ImplicitlyCastable to it) returns TypeMismatch and leaves the entry.
C34_InvalidateStoredToT ==
    last.op = "Invalidate" =>
        \A r \in LastFound :
            ~EqualOrImplicit(last.cast, r.tagObj, last.tag) =>
                /\ last.res = TypeMismatch
                /\ pointers = last.ptrs

\* C34, amended: Tclh_PointerInvalidate on a pointer with whose stored tag
\* the tag passed is not compatible (the tag passed neither Equal nor
\* ImplicitlyCastable to the stored tag) returns TypeMismatch and leaves the
\* entry, its count or pinned state included.
C34_InvalidateTToStored ==
    last.op = "Invalidate" =>
        \A r \in LastFound :
            TagRelation(last.cast, last.tag, r.tagObj)
                \in {TCLH_TAG_RELATION_UNRELATED,
                     TCLH_TAG_RELATION_EXPLICITLY_CASTABLE} =>
                /\ last.res = TypeMismatch
                /\ FindHashEntry(pointers, last.pointer) = {r}
                /\ pointers = last.ptrs /\ castables = last.cast

\* invalidate(p, Animal) refused on an entry Counted(2) under Dog,
\* Dog a subtag of Animal.
C34_Witness ==
    /\ last.op = "Invalidate" /\ last.tag = "Animal"
    /\ last.cast = OnlyDogToAnimal
    /\ LastFound = {TclhPointerRecord("Dog", 2)}
    /\ last.res = TypeMismatch
    /\ FindHashEntry(pointers, last.pointer) = {TclhPointerRecord("Dog", 2)}

\* The status dissect reports for the handle of the last call, on the
\* tables the call found.
LastStatus ==
    Tclh_PointerObjDissect(last.ptrs, last.cast, last.pointer, last.tag,
                           NoTag).registered

\* C36: verify(p, t) succeeds iff the registration status dissect reports
\* for the handle (p, t) is Ok or Derived, and fails with NotRegistered
\* iff that status is Missing.
C36_VerifyAgreesWithDissect ==
    last.op = "Verify" =>
        /\ last.res = TCL_OK
              <=> LastStatus \in {TCLH_POINTER_REGISTRATION_OK,
                                  TCLH_POINTER_REGISTRATION_DERIVED}
        /\ last.res = NotRegistered
              <=> LastStatus = TCLH_POINTER_REGISTRATION_MISSING

\* verify(p, T0) on an entry under T10, ten edges above T0: success and
\* Derived.
C36_Witness ==
    /\ last.op = "Verify" /\ last.tag = ChainTag(0)
    /\ LastFound = {TclhPointerRecord(ChainTag(10), -1)}
    /\ last.cast = ChainTable
    /\ last.res = TCL_OK
    /\ LastStatus = TCLH_POINTER_REGISTRATION_DERIVED

\* C39: register, unregister, invalidate and cast on address p leave the
\* entry of every other address and the subtag edges as they were;
\* defineSubtag and removeSubtag leave every entry as it was; and verify
\* answers by the edges as they are when it is called.
C39_Frame ==
    /\ last.op \in {"Register", "Unregister", "Invalidate", "Cast"} =>
          /\ \A q \in Addresses \ {last.pointer} :
                FindHashEntry(pointers, q) = FindHashEntry(last.ptrs, q)
          /\ castables = last.cast
    /\ last.op \in {"SubtagDefine", "SubtagRemove"} => pointers = last.ptrs
    /\ last.op = "Verify" =>
          (last.res = TCL_OK <=>
              \E r \in LastFound :
                  TagRelation(last.cast, last.tag, r.tagObj)
                      \in {TCLH_TAG_RELATION_EQUAL,
                           TCLH_TAG_RELATION_IMPLICITLY_CASTABLE})

\* unregister of the only reference of 0x1000 with 0x2000 registered and
\* the edge Dog -> Animal defined: both stay.
C39_Witness ==
    /\ last.op = "Unregister" /\ last.pointer = 4096 /\ last.res = TCL_OK
    /\ 4096 \in DOMAIN last.ptrs /\ 4096 \notin DOMAIN pointers
    /\ 8192 \in DOMAIN pointers
    /\ FindHashEntry(pointers, 8192) = FindHashEntry(last.ptrs, 8192)
    /\ castables = OnlyDogToAnimal

\* The actual tag a is compatible with the expected tag b.
Compatible(cast, a, b) ==
    TagRelation(cast, a, b)
        \in {TCLH_TAG_RELATION_EQUAL, TCLH_TAG_RELATION_IMPLICITLY_CASTABLE}

\* The calls that only read the registry.
ReadOnlyOps ==
    {"Verify", "Dissect", "Enumerate", "Registered", "Format",
     "UnwrapTagged", "ObjCompare", "ObjVerify"}

\* C31: verify, dissect, enumerate, the registered-query, wrap and its
\* string form, unwrap/parse and the comparison of handles leave every
\* entry and every subtag edge as they were, whether they succeed or fail;
\* and unwrap answers by the object, the expected tag and the subtag edges
\* alone, whatever is registered.
C31_ReadOnly ==
    /\ last.op \in ReadOnlyOps =>
          pointers = last.ptrs /\ castables = last.cast
    /\ last.op = "UnwrapTagged" =>
          LET h == SetPointerFromAny(last.srep) IN
          /\ last.res = TCL_OK <=>
                /\ h.res = TCL_OK
                /\ \/ last.tag2 = NoTag
                   \/ h.pv = NULL /\ h.tagObj = NoTag
                   \/ Compatible(last.cast, h.tagObj, last.tag2)
          /\ last.res = TCL_OK =>
                last.pointer = h.pv /\ last.tag = h.tagObj
    /\ last.op = "Format" => last.obj = <<last.pointer, last.tag>>

\* verify(p, Dog) on an entry Counted(2): success, the count is 2.
C31_Witness ==
    /\ last.op = "Verify" /\ last.tag = "Dog" /\ last.res = TCL_OK
    /\ LastFound = {TclhPointerRecord("Dog", 2)}
    /\ FindHashEntry(pointers, last.pointer) = {TclhPointerRecord("Dog", 2)}

\* C35: Tclh_PointerObjVerify with the expected tag e succeeds only if the
\* handle parses, its address is not null, its tag is compatible with e
\* when e is not none, and the address has an entry with whose stored tag
\* the handle's tag is compatible. Of the failures, the first in this order
\* decides the error: an object that does not parse InvalidValue, a tag not
\* compatible with e a type error, a null address NullPointer, a missing
\* entry NotRegistered, a stored tag the handle's tag is not compatible with
\* TypeMismatch. The registry is not modified.
C35_ObjVerify ==
    last.op = "ObjVerify" =>
        LET parses == last.parsed = TCL_OK
            tagOk == \/ last.tag2 = NoTag
                     \/ last.pointer = NULL /\ last.tag = NoTag
                     \/ Compatible(last.cast, last.tag, last.tag2)
            nonNull == last.pointer # NULL
            entryOk == \E r \in LastFound :
                           Compatible(last.cast, last.tag, r.tagObj)
        IN  /\ last.res = TCL_OK <=> parses /\ tagOk /\ nonNull /\ entryOk
            /\ last.res =
                  IF ~parses THEN InvalidValue
                  ELSE IF ~tagOk THEN WrongType
                  ELSE IF ~nonNull THEN NullPointer
                  ELSE IF LastFound = {} THEN NotRegistered
                  ELSE IF ~entryOk THEN TypeMismatch
                  ELSE TCL_OK
            /\ pointers = last.ptrs /\ castables = last.cast

\* The object 0x1000^Dog verified against Animal, Dog a subtag of Animal and
\* the address registered under Animal.
C35_Witness ==
    /\ last.op = "ObjVerify" /\ last.res = TCL_OK
    /\ last.pointer = 4096 /\ last.tag = "Dog" /\ last.tag2 = "Animal"
    /\ last.cast = OnlyDogToAnimal
    /\ \E r \in LastFound : r.tagObj = "Animal"


\* C32: teardown of the owning context runs exactly once per registry and
\* removes every remaining entry, whatever its kind, and every subtag
\* edge; the two tables exist together and go together. While the registry
\* lives exactly one teardown is pending and none has run; once the
\* interpreter is deleted, one has run if there was a registry and none
\* otherwise, and both tables are empty.
C32_TeardownOnce ==
    /\ ctx.registryP = "live" => ctx.whenDeleted = 1 /\ ctx.cleanups = 0
    /\ ctx.registryP = NullArg => ctx.whenDeleted = 0 /\ ctx.cleanups = 0
    /\ ctx.registryP = "freed" =>
          /\ ctx.interp = "deleted"
          /\ ctx.whenDeleted = 0
          /\ ctx.cleanups = 1
    /\ ctx.registryP # "live" =>
          pointers = EmptyTable /\ castables = EmptyTable
    /\ last.op = "DeleteInterp" =>
          /\ ctx.interp = "deleted"
          /\ ctx.registryP = (IF last.registryP = "live"
                              THEN "freed" ELSE NullArg)

\* A teardown that found a pinned entry, a counted or uncounted entry and
\* an edge.
C32_Witness ==
    /\ last.op = "DeleteInterp"
    /\ last.registryP = "live"
    /\ \E p \in DOMAIN last.ptrs : IsPinned(last.ptrs[p])
    /\ \E p \in DOMAIN last.ptrs :
          IsCounted(last.ptrs[p]) \/ IsUncounted(last.ptrs[p])
    /\ last.cast # EmptyTable
    /\ ctx.cleanups = 1

\* C33: a context has at most one registry: Tclh_PointerLibInit on a
\* context that has a registry returns TCL_OK and keeps every entry and
\* edge, and a registry operation on a context without a registry returns an
\* error and creates no state.
C33_OneRegistry ==
    /\ (last.op = "LibInit" /\ last.registryP = "live") =>
          /\ last.res = TCL_OK
          /\ ctx.registryP = "live"
          /\ pointers = last.ptrs
          /\ castables = last.cast
    /\ (last.op \in RegistryOps /\ "registryP" \in DOMAIN last) =>
          /\ last.res # TCL_OK
          /\ ctx.registryP = NullArg
          /\ pointers = EmptyTable
          /\ castables = EmptyTable

\* The references the tables account for: one for each entry whose stored
\* tag is t and one for each edge whose supertag is t.
RefsHeld(t) ==
    Cardinality({p \in DOMAIN pointers : pointers[p].tagObj = t})
    + Cardinality({s \in DOMAIN castables : castables[s] = t})

\* C40: the registry holds exactly one reference on the stored tag of each
\* entry and one on the supertag of each edge, so that it holds none once
\* every entry and edge is gone.
C40_ExactTagReferences ==
    ctx.track =>
        \A t \in LifeTags \cup DOMAIN ctx.refs : Ref(ctx.refs, t) = RefsHeld(t)
====
